---------------------------- MODULE Spec2Model ----------------------------
(***************************************************************************)
(* State-machine model of the arbitrage detection pipeline of              *)
(* Market-analyzer: the arb engine (core/arb), the Jupiter quote client    *)
(* (connectors/jupiter.py), the quarantine manager                         *)
(* (core/quarantine_manager.py) and the Bybit WS client and cluster        *)
(* (connectors/bybit_ws.py, core/ws_cluster.py).                           *)
(*                                                                         *)
(* The components are modelled by groups of variables.  Each               *)
(* specification (SpecEngine, SpecJup, SpecLim, SpecQuar, SpecRec,         *)
(* SpecRun, SpecWS and their variants) moves one group and leaves the      *)
(* others at their initial value.                                          *)
(*                                                                         *)
(* Decimal amounts are exact rationals <<n, d>> (d > 0, lowest terms).     *)
(* Wall-clock and monotonic time are integer seconds; a millisecond        *)
(* timestamp is seconds * 1000.                                            *)
(***************************************************************************)
EXTENDS Integers, Sequences, FiniteSets, Bags, TLC

VARIABLES
    \* ---- arb engine (core/arb/engine.py, persistence.py, dedup.py, core/state.py)
    eNow,          \* time.time(), seconds
    eset,          \* the engine's live settings (constructor arguments, reload_settings)
    ob,            \* MarketState.orderbooks[symbol]: [book, ts]
    qp,            \* MarketState.quotes[token]: QuotePair
    pcnt,          \* Persistence._cnt, by <<token, branch>>
    last_sent,     \* Dedup._last_sent, by signal key
    last_prune_ts, \* Dedup._last_prune_ts
    last_b_requote,\* ArbEngine._last_b_requote, by token
    epc,           \* position of _run_one_token per token
    eloc,          \* locals of _run_one_token that live across its awaits
    ppc,           \* position of QuotePoller._poll_one_token per token
    preq,          \* stable_raw of the BUY request in progress, per token (0 = none)
    poll_backoff_until, \* QuotePoller._poll_backoff_until, by token (0 = no entry)
    ticks,         \* number of evaluations started (bounded)
    streak,        \* history: consecutive completed valid evaluations, by <<token, branch>>
    emitted,       \* history: the Signals handed to on_signal, in order
    \* ---- Jupiter quote client (connectors/jupiter.py)
    jNow,          \* time.monotonic(), seconds
    token_until,   \* NegativeCache._token_until, in insertion order: [key, until]
    pair_until,    \* NegativeCache._pair_until, in insertion order: [key, until]
    jcall,         \* the quote_exact_in calls in progress (a bag of call records)
    jret,          \* the call that has just returned, if any
    jcfg,          \* the JupiterClient constructor arguments
    \* ---- quarantine manager (core/quarantine_manager.py, core/quarantine.py)
    qNow,          \* now_ts(), seconds
    qfile,         \* the quarantine file: [until: symbol -> until_ts (0 = no entry), mtime]
    quarantined_set, \* QuarantineManager.quarantined_set
    cfg,           \* cfg.bybit.symbols, cfg.trading.tokens, cfg.filters.denylist_symbols
    token_cfgs,    \* the engine's token map, rebuilt in place
    last_write,    \* QuarantineManager._last_write, by symbol
    qlock,         \* _lock and _file_lock: holder and waiting add() calls
    qsync,         \* sync_loop: [pc, last_mtime, arg]
    qadd,          \* add() calls made so far, in call order
    qcluster,      \* the symbol list update_symbols last received
    \* ---- Bybit WS client and cluster (connectors/bybit_ws.py, core/ws_cluster.py)
    wclients,      \* BybitWSCluster._clients: sequence of client records
    wsymbols,      \* the symbol list update_symbols was last called with
    wupdates,      \* number of update_symbols calls made (bounded)
    \* ---- rate limiter of the quote client (connectors/jupiter.py, RateLimiter)
    lim,           \* RateLimiter: [rps2, permits, sem, waiters, tokens4]
    lElapsed,      \* time.monotonic() - RateLimiter._last, in half seconds (capped)
    lcall,         \* quote_exact_in calls seen by the limiter: [pc, attempt]
    \* ---- quarantine entries with their reasons, and the verifier
    \*      (core/quarantine_manager.py, core/quarantine.py, core/quarantine_verifier.py)
    rNow,          \* now_ts(), seconds
    rfile,         \* the quarantine file: [ent: symbol -> [reason, until], mtime]
    rset,          \* QuarantineManager.quarantined_set
    rcfg,          \* cfg.bybit.symbols, cfg.trading.tokens, cfg.filters.denylist_symbols
    rtok,          \* token_cfgs
    rlast,         \* QuarantineManager._last_write, by symbol
    rsync,         \* sync_loop: [last_mtime, faults, cb]
    rver,          \* verify_and_recover: [pc, q, todo, recovered, checks, ok, runs]
    radds,         \* number of add() calls made (bounded)
    \* ---- the engine's tick loop (core/arb/engine.py, ArbEngine.run)
    nrun,          \* run(): [pc, chunk, ticks, raised]
    ntask,         \* the _run_one_bounded task of each token in the current chunk
    nsem,          \* free permits of _engine_sem
    nseen,         \* the tokens _run_one_token was entered for in the current tick
    \* ---- the exchange switch and the poller's loop (app/handlers.py, core/arb/poller.py)
    xev,           \* exchange_enabled_event.is_set()
    prun,          \* QuotePoller.run(): [pc, chunk, passes]
    ptask,         \* the runner task of each token in the current chunk
    psem,          \* free permits of the semaphore of QuotePoller.run
    \* ---- one order book (core/orderbook.py)
    obook,         \* OrderBook: [bids, asks: price -> level, last_update_ms]
    \* ---- one use of the VWAP simulators (core/vwap.py)
    vw,            \* [pc, levels, x1, x2] and, once computed, the results r1, r2
    \* ---- the quarantine file as other processes see it (core/quarantine.py)
    dfile,         \* the lines the file holds now
    dsave,         \* save_quarantine in the bot: [pc, prev, new, saves]
    dseen,         \* what the last reader outside the call got: [some, lines, prev, new]
    \* ---- the quarantine map functions (core/quarantine.py)
    kq,            \* the dict handed to the function: symbol -> [reason, until_ts]
    kq0,           \* history: that dict as it was before the call
    kres,          \* [pc, ts, out]: the call made and the dict it returned
    \* ---- one BybitWS client and its run() task (connectors/bybit_ws.py)
    bclient,       \* run(), the connection, its tasks, the senders and the pending acks
    \* ---- the Jupiter sanitizer callback (core/jupiter_sanitizer.py)
    san,           \* the closure of make_on_jup_skip: clock, counters, rate window
    \* ---- the passes of QuotePoller.run and the poll back-off (core/arb/poller.py)
    pol,           \* clock, token_cfgs, _poll_backoff_until, the runners, the stored quotes
    \* ---- the exchange toggle, the WS health task and the sync loop (app/handlers.py, app/tasks.py)
    app,           \* exchange_enabled, the cluster's clients, the books' ages, the quarantine
    \* ---- the three locks (core/quarantine_manager.py, core/ws_cluster.py)
    lock_state,    \* the holders of _file_lock, _lock and the cluster's _lock; the tasks' positions
    \* ---- a Dedup of its own (core/arb/dedup.py)
    ded,           \* the clock, _last_sent, _last_prune_ts, the table nothing is pruned from
    \* ---- branch A on literal inputs (core/arb/engine.py, core/vwap.py, core/fees.py)
    scn            \* the clock, the persistence counter, the dedup table, the last tick

engineVars == <<eNow, eset, ob, qp, pcnt, last_sent, last_prune_ts, last_b_requote,
                epc, eloc, ppc, preq, poll_backoff_until, ticks, streak, emitted>>
jupVars    == <<jNow, token_until, pair_until, jcall, jret, jcfg>>
quarVars   == <<qNow, qfile, quarantined_set, cfg, token_cfgs, last_write,
                qlock, qsync, qadd, qcluster>>
wsVars     == <<wclients, wsymbols, wupdates>>
limVars    == <<lim, lElapsed, lcall>>
recVars    == <<rNow, rfile, rset, rcfg, rtok, rlast, rsync, rver, radds>>
runVars    == <<nrun, ntask, nsem, nseen>>
pauseVars  == <<xev, prun, ptask, psem>>
bookVars   == <<obook>>
vwapVars   == <<vw>>
saveVars   == <<dfile, dsave, dseen>>
mapVars    == <<kq, kq0, kres>>
connVars   == <<bclient>>
sanVars    == <<san>>
polVars    == <<pol>>
appVars    == <<app>>
lockVars   == <<lock_state>>
dedVars    == <<ded>>
scnVars    == <<scn>>
moreVars   == <<sanVars, polVars, appVars, lockVars, dedVars, scnVars>>
extraVars  == <<limVars, recVars, runVars, pauseVars, bookVars, vwapVars, saveVars, mapVars,
                connVars, moreVars>>
vars       == <<engineVars, jupVars, quarVars, wsVars, extraVars>>

-----------------------------------------------------------------------------
(* Exact decimal arithmetic.                                               *)

RECURSIVE Gcd(_, _)
Gcd(a, b) == IF b = 0 THEN a ELSE Gcd(b, a % b)

Abs(x) == IF x < 0 THEN -x ELSE x

\* The rational n/d in lowest terms with a positive denominator.
Rat(n, d) ==
    LET s == IF d < 0 THEN -1 ELSE 1
        g == Gcd(Abs(n), Abs(d))
    IN  IF n = 0 THEN <<0, 1>> ELSE <<(s * n) \div g, (s * d) \div g>>

RInt(n)    == <<n, 1>>
RAdd(a, b) == Rat(a[1] * b[2] + b[1] * a[2], a[2] * b[2])
RSub(a, b) == Rat(a[1] * b[2] - b[1] * a[2], a[2] * b[2])
RMul(a, b) == Rat(a[1] * b[1], a[2] * b[2])
RDiv(a, b) == Rat(a[1] * b[2], a[2] * b[1])
RLt(a, b)  == a[1] * b[2] < b[1] * a[2]
RLe(a, b)  == a[1] * b[2] <= b[1] * a[2]
RMin(a, b) == IF RLe(a, b) THEN a ELSE b
RMax(a, b) == IF RLe(a, b) THEN b ELSE a
RZero      == <<0, 1>>

RECURSIVE Pow10(_)
Pow10(k) == IF k = 0 THEN 1 ELSE 10 * Pow10(k - 1)

\* core/arb/utils.py: to_raw rounds towards zero, from_raw divides by 10^decimals.
to_raw(amount, decimals) ==
    LET x == RMul(amount, RInt(Pow10(decimals)))
    IN  IF x[1] >= 0 THEN x[1] \div x[2] ELSE -((-x[1]) \div x[2])

from_raw(raw, decimals) == Rat(raw, Pow10(decimals))

-----------------------------------------------------------------------------------------------------------------------------------------------------
(* Python's Decimal context: the result of +, -, * and / is the exact       *)
(* result rounded to prec significant digits, ties to even.                *)

\* The integer nearest to n/d (n >= 0, d > 0), ties to even.
HalfEven(n, d) ==
    LET q == n \div d
        r == n % d
    IN  IF 2 * r > d THEN q + 1
        ELSE IF 2 * r = d THEN q + (q % 2)
        ELSE q

\* n/d (n > 0, d > 0) rounded to prec significant digits.
RECURSIVE DecRoundPos(_, _, _)
DecRoundPos(n, d, prec) ==
    IF n >= d * Pow10(prec) THEN RMul(RInt(10), DecRoundPos(n, d * 10, prec))
    ELSE IF n < d * Pow10(prec - 1) THEN RDiv(DecRoundPos(n * 10, d, prec), RInt(10))
    ELSE RInt(HalfEven(n, d))

DecRound(x, prec) ==
    IF x[1] = 0 THEN x
    ELSE IF x[1] > 0 THEN DecRoundPos(x[1], x[2], prec)
    ELSE RSub(RZero, DecRoundPos(-x[1], x[2], prec))

-----------------------------------------------------------------------------
(* core/vwap.py.  A level is <<price, qty>>, both rationals.               *)

NoSim == [ok |-> FALSE]

\* simulate_sell_base under a Decimal context that rounds with Rnd.  SellWalk
\* is its for-loop from level i on; acc = <<remaining_base, quote_got, base_sold>>.
sell_base(bids, base_amount, Rnd(_)) ==
    LET RECURSIVE SellWalk(_, _)
        SellWalk(i, acc) ==
            IF i > Len(bids) \/ RLe(acc[1], RZero) THEN acc
            ELSE LET price == bids[i][1]
                     qty   == bids[i][2]
                 IN  IF RLe(price, RZero) \/ RLe(qty, RZero)
                     THEN SellWalk(i + 1, acc)
                     ELSE LET take == RMin(qty, acc[1])
                              got  == Rnd(RMul(take, price))
                          IN  SellWalk(i + 1,
                                       <<Rnd(RSub(acc[1], take)), Rnd(RAdd(acc[2], got)),
                                         Rnd(RAdd(acc[3], take))>>)
    IN  IF Len(bids) = 0 \/ RLe(base_amount, RZero) THEN NoSim
        ELSE LET best_bid == bids[1][1]
                 acc      == SellWalk(1, <<base_amount, RZero, RZero>>)
                 quote_got == acc[2]
                 base_sold == acc[3]
             IN  IF base_sold = RZero THEN NoSim
                 ELSE LET avg == Rnd(RDiv(quote_got, base_sold))
                      IN  [ok |-> TRUE, base_out |-> base_sold, quote_out |-> quote_got,
                           avg_price |-> avg,
                           slippage_bps |->
                               Rnd(RMul(Rnd(RSub(RInt(1), Rnd(RDiv(avg, best_bid)))),
                                        RInt(10000)))]

\* A context whose precision the values at hand never reach.
Exact(x) == x

simulate_sell_base(bids, base_amount) == sell_base(bids, base_amount, Exact)

\* simulate_buy_with_notional under a Decimal context that rounds with Rnd.
\* BuyWalk is its for-loop; acc = <<remaining_quote, base_got, quote_spent>>.
buy_with_notional(asks, notional, Rnd(_)) ==
    LET RECURSIVE BuyWalk(_, _)
        BuyWalk(i, acc) ==
            IF i > Len(asks) \/ RLe(acc[1], RZero) THEN acc
            ELSE LET price == asks[i][1]
                     qty   == asks[i][2]
                 IN  IF RLe(price, RZero) \/ RLe(qty, RZero)
                     THEN BuyWalk(i + 1, acc)
                     ELSE LET take  == RMin(qty, Rnd(RDiv(acc[1], price)))
                              spent == Rnd(RMul(take, price))
                          IN  BuyWalk(i + 1,
                                      <<Rnd(RSub(acc[1], spent)), Rnd(RAdd(acc[2], take)),
                                        Rnd(RAdd(acc[3], spent))>>)
    IN  IF Len(asks) = 0 \/ RLe(notional, RZero) THEN NoSim
        ELSE LET best_ask == asks[1][1]
                 acc      == BuyWalk(1, <<notional, RZero, RZero>>)
                 base_got    == acc[2]
                 quote_spent == acc[3]
             IN  IF base_got = RZero THEN NoSim
                 ELSE LET avg == Rnd(RDiv(quote_spent, base_got))
                      IN  [ok |-> TRUE, base_out |-> base_got, quote_out |-> quote_spent,
                           avg_price |-> avg,
                           slippage_bps |->
                               Rnd(RMul(Rnd(RSub(Rnd(RDiv(avg, best_ask)), RInt(1))),
                                        RInt(10000)))]

simulate_buy_with_notional(asks, notional) == buy_with_notional(asks, notional, Exact)

-----------------------------------------------------------------------------
(* core/calc.py and core/fees.py.                                          *)

NoMid == [ok |-> FALSE]

calc_mid_spread(bids, asks) ==
    IF Len(bids) = 0 \/ Len(asks) = 0 THEN NoMid
    ELSE LET best_bid == bids[1][1]
             best_ask == asks[1][1]
             mid      == RDiv(RAdd(best_bid, best_ask), RInt(2))
         IN  IF RLe(best_bid, RZero) \/ RLe(best_ask, RZero) \/ RLe(mid, RZero) THEN NoMid
             ELSE [ok |-> TRUE, mid |-> mid,
                   spread_bps |-> RMul(RDiv(RSub(best_ask, best_bid), mid), RInt(10000))]

coverage_pct(got, target) ==
    IF RLe(target, RZero) THEN RZero ELSE RMul(RDiv(got, target), RInt(100))

\* net_profit that forgets the required profit.
net_profit_gross(stable_out, notional, required) == RSub(stable_out, notional)

net_profit(stable_out, notional, required) == RSub(RSub(stable_out, notional), required)

price_ratio_ok(implied, mid, max_ratio) ==
    IF RLe(implied, RZero) \/ RLe(mid, RZero) THEN FALSE
    ELSE RLe(RDiv(RMax(implied, mid), RMin(implied, mid)), max_ratio)

gross_cap_ok(stable_out, notional, max_gross_profit_pct) ==
    IF RLe(notional, RZero) THEN FALSE
    ELSE RLe(RMul(RDiv(RSub(stable_out, notional), notional), RInt(100)), max_gross_profit_pct)

\* Thresholds.required_profit_usd
required_profit_usd(th, notional_usd) ==
    LET cex_fee == RMul(notional_usd, RDiv(th.bybit_taker_fee_bps, RInt(10000)))
        buffers == RMul(notional_usd,
                        RDiv(RAdd(th.latency_buffer_bps, th.usdt_usdc_buffer_bps), RInt(10000)))
    IN  RAdd(RAdd(RAdd(cex_fee, buffers), th.solana_tx_fee_usd), th.min_profit_usd)

-----------------------------------------------------------------------------
(* Arb engine: configuration and inputs.                                   *)

\* Bounds of the engine model: evaluations started, and the instants at which
\* the clock is observed (seconds 0 .. MaxFine of minutes 0 .. MaxMinutes).
MaxTicks   == 3
MaxMinutes == 1
MaxFine    == 1
MaxReloadTick == 1
MaxReloadEvals == 2

\* core/arb/dedup.py: DEDUP_PRUNE_INTERVAL_SEC; engine.py: b_requote_cooldown_sec.
DEDUP_PRUNE_INTERVAL_SEC == 60
B_REQUOTE_COOLDOWN_SEC   == 2


Tokens   == {"T1"}

\* The values of notional_usd and jupiter_poll_interval_sec that the settings
\* take: the ones at start-up and the ones a reload brings.
NotionalsTried == {100, 98}
PollIntervalsTried == {1, 30}
Branches == {"A", "B"}
Direction(br) == IF br = "A" THEN "JUP->BYBIT" ELSE "BYBIT->JUP"

\* The token map handed to the engine (token_cfgs).
EngineTokenCfgs ==
    [t \in Tokens |-> [mint |-> "M1", bybit_symbol |-> "T1USDT", decimals |-> 1]]

PumpMints == {"M2pump"}

\* ArbEngine._is_pump_mint: the mint's text ends with "pump".
is_pump_mint(mint) == mint \in PumpMints

\* Denylist.is_denied with the default denylist: none of the model's tokens
\* is a default-denied symbol or matches the multiplier pattern.
is_denied(token_key, bybit_symbol) == FALSE

\* The settings the engine is constructed with (ArbEngine.__init__).
InitSettings ==
    [notional                 |-> RInt(100),
     stable_mint              |-> "USDC",
     stable_decimals          |-> 1,
     thresholds               |-> [bybit_taker_fee_bps  |-> RInt(10),
                                   solana_tx_fee_usd    |-> RZero,
                                   latency_buffer_bps   |-> RInt(10),
                                   usdt_usdc_buffer_bps |-> RInt(10),
                                   min_profit_usd       |-> RInt(1)],
     max_cex_slippage_bps     |-> RInt(300),
     max_dex_price_impact_pct |-> RInt(1),
     persistence_hits         |-> 2,
     cooldown_sec             |-> 1,
     min_delta_profit         |-> RInt(1),
     max_price_ratio          |-> RInt(3),
     max_gross_profit_pct     |-> RInt(10),
     max_spread_bps           |-> RInt(1500),
     min_depth_coverage_pct   |-> RInt(98),
     max_ob_age_ms            |-> 2000,
     max_quote_age_ms         |-> 5000,
     poller                   |-> [notional |-> RInt(100), poll_interval |-> 1,
                                   max_quote_age_ms |-> 5000]]

\* Order books the feed may deliver (levels are <<price, qty>>).
Lvl(p, q) == <<RInt(p), RInt(q)>>
BookIds == 1 .. 2
BookOf(id) ==
    CASE id = 1 -> [bids |-> <<Lvl(10, 20)>>, asks |-> <<Lvl(11, 20)>>]
      [] id = 2 -> [bids |-> <<Lvl(9, 20)>>,  asks |-> <<Lvl(10, 20)>>]
      [] OTHER  -> [bids |-> <<>>, asks |-> <<>>]

NoOb == [book |-> 0, ts |-> 0]

\* JupQuote; some = FALSE stands for None.
NoQuote == [some |-> FALSE, input_mint |-> "", output_mint |-> "",
            in_amount_raw |-> 0, out_amount_raw |-> 0, price_impact_pct |-> RZero]
Quote(im, om, inr, outr, imp) ==
    [some |-> TRUE, input_mint |-> im, output_mint |-> om,
     in_amount_raw |-> inr, out_amount_raw |-> outr, price_impact_pct |-> RInt(imp)]

\* What the quote API may answer to the poller's BUY request (stable -> token).
BuyAnswers(t, stable_raw) ==
    LET m == EngineTokenCfgs[t].mint
    IN  { Quote("USDC", m, stable_raw, 105, 0), Quote("USDC", m, stable_raw, 107, 0) }

\* What quote_exact_in may return to the engine's SELL re-quote (token -> stable).
SellAnswers(t, amount_raw) ==
    LET m == EngineTokenCfgs[t].mint
    IN  { NoQuote,
          Quote(m, "USDC", amount_raw, 1030, 0),
          Quote(m, "USDC", amount_raw, 1030, 5) }

NoPair == [buy_quote |-> NoQuote, buy_updated_ms |-> 0,
           sell_quote |-> NoQuote, sell_updated_ms |-> 0, sell_amount_raw |-> 0]

NoLoc == [book |-> 0, mid |-> RZero, now_ms |-> 0, j_sell |-> NoQuote, sell_amount_raw |-> 0,
          sell_updated_ms |-> 0, required |-> RZero]

\* QuotePoller.__init__ defaults.
PollerDefaults == [backoff_on_none_sec |-> 5, backoff_on_err_sec |-> 10]

\* Signal keys: f"{token_key}:{direction}:{int(notional)}".
SignalKey(t, br, notional) == <<t, Direction(br), to_raw(notional, 0)>>
Keys == { SignalKey(t, br, RInt(n)) : t \in Tokens, br \in Branches, n \in NotionalsTried }
PKeys == Tokens \X Branches

NoSent == [some |-> FALSE, ts |-> 0, profit |-> RZero]

now_ms(now) == now * 1000

\* time.time() is far past the epoch when the process starts: the model's
\* clock starts one prune interval after zero, so that every zero default
\* (_last_prune_ts = 0.0, buy_updated_ms = 0, ...) lies in the distant past.
InitClock == DEDUP_PRUNE_INTERVAL_SEC

\* The instants at which the model observes the clock.
ClockPoints ==
    { InitClock + (m * DEDUP_PRUNE_INTERVAL_SEC) + f : m \in 0 .. MaxMinutes, f \in 0 .. MaxFine }

\* History record of one Signal handed to on_signal; prev is the Signal of the
\* same key before it.
NoSignal == [some |-> FALSE]

-----------------------------------------------------------------------------
(* core/arb/persistence.py and core/arb/dedup.py.                          *)

\* Persistence.hit(key, ok): the new counter map; the call returns PersistReady.
PersistHit(cnt, key, ok) ==
    IF ~ok THEN [cnt EXCEPT ![key] = 0] ELSE [cnt EXCEPT ![key] = @ + 1]

PersistReady(cnt, key, ok, hits) == ok /\ cnt[key] >= hits

\* _prune_stale that keeps no entry.
prune_stale_all(sent, prune_ts, cooldown_sec, now) ==
    IF (now - prune_ts) < DEDUP_PRUNE_INTERVAL_SEC THEN <<sent, prune_ts>>
    ELSE <<[k \in DOMAIN sent |-> NoSent], now>>

\* Dedup._prune_stale at time now: <<_last_sent, _last_prune_ts>> after it.
prune_stale(sent, prune_ts, cooldown_sec, now) ==
    IF (now - prune_ts) < DEDUP_PRUNE_INTERVAL_SEC THEN <<sent, prune_ts>>
    ELSE LET cutoff == now - (cooldown_sec * 2)
         IN  <<[k \in DOMAIN sent |->
                   IF sent[k].some /\ sent[k].ts < cutoff THEN NoSent ELSE sent[k]],
               now>>

\* can_send with the cooldown comparison turned around.
can_send_inverted(sent, key, profit, cooldown_sec, min_delta_profit, now) ==
    LET prev == sent[key]
    IN  IF ~prev.some THEN TRUE
        ELSE IF (now - prev.ts) > cooldown_sec
                /\ RLt(RSub(profit, prev.profit), min_delta_profit)
             THEN FALSE
             ELSE TRUE

\* Dedup.can_send(key, profit), evaluated on the table left by _prune_stale.
can_send(sent, key, profit, cooldown_sec, min_delta_profit, now) ==
    LET prev == sent[key]
    IN  IF ~prev.some THEN TRUE
        ELSE IF (now - prev.ts) < cooldown_sec
                /\ RLt(RSub(profit, prev.profit), min_delta_profit)
             THEN FALSE
             ELSE TRUE

\* Dedup.mark_sent(key, profit)
mark_sent(sent, key, profit, now) ==
    [sent EXCEPT ![key] = [some |-> TRUE, ts |-> now, profit |-> profit]]

-----------------------------------------------------------------------------
(* ArbEngine._run_one_token, in the pieces between its awaits.             *)

\* Lines 257-292: the filter chain of branch A on the snapshotted buy quote.
BranchA(st, tc, j_buy, bids, mid, required) ==
    LET Skip(r)  == [valid |-> FALSE, reason |-> r, profit |-> RZero]
    IN  IF ~j_buy.some THEN Skip("A_no_jup_buy_quote")
        ELSE IF j_buy.output_mint # tc.mint \/ j_buy.input_mint # st.stable_mint
             THEN Skip("A_skip_mint_mismatch")
        ELSE IF RLt(st.max_dex_price_impact_pct, j_buy.price_impact_pct)
             THEN Skip("A_skip_dex_impact")
        ELSE LET token_out == from_raw(j_buy.out_amount_raw, tc.decimals)
             IN  IF RLe(token_out, RZero) THEN Skip("A_skip_token_out_le0")
                 ELSE LET sim_sell == simulate_sell_base(bids, token_out)
                      IN  IF ~sim_sell.ok THEN Skip("A_skip_sim_sell_none")
                          ELSE IF RLt(coverage_pct(sim_sell.base_out, token_out),
                                      st.min_depth_coverage_pct)
                               THEN Skip("A_skip_depth")
                          ELSE IF RLt(st.max_cex_slippage_bps, sim_sell.slippage_bps)
                               THEN Skip("A_skip_cex_slip")
                          ELSE LET stable_out == sim_sell.quote_out
                               IN  IF RLe(stable_out, RZero) THEN Skip("A_skip_stable_out_le0")
                                   ELSE IF ~price_ratio_ok(RDiv(st.notional, token_out), mid,
                                                           st.max_price_ratio)
                                        THEN Skip("A_skip_price_ratio")
                                   ELSE IF ~gross_cap_ok(stable_out, st.notional,
                                                         st.max_gross_profit_pct)
                                        THEN Skip("A_skip_gross_cap")
                                   ELSE LET profit == net_profit(stable_out, st.notional, required)
                                        IN  IF RLe(profit, RZero) THEN Skip("A_skip_profit_le0")
                                            ELSE [valid |-> TRUE, reason |-> "ok",
                                                  profit |-> profit]

\* Lines 331-345: the CEX buy simulation of branch B.
BranchBSim(st, tc, asks) ==
    LET sim_buy2 == simulate_buy_with_notional(asks, st.notional)
        Skip(r)  == [ok |-> FALSE, reason |-> r, token_out2 |-> RZero, expected_raw |-> 0]
    IN  IF ~sim_buy2.ok THEN Skip("B_skip_sim_buy_none")
        ELSE IF RLt(coverage_pct(sim_buy2.quote_out, st.notional), st.min_depth_coverage_pct)
             THEN Skip("B_skip_depth")
        ELSE IF RLt(st.max_cex_slippage_bps, sim_buy2.slippage_bps)
             THEN Skip("B_skip_cex_slip")
        ELSE IF RLe(sim_buy2.base_out, RZero) THEN Skip("B_skip_token_out_le0")
        ELSE [ok |-> TRUE, reason |-> "ok", token_out2 |-> sim_buy2.base_out,
              expected_raw |-> to_raw(sim_buy2.base_out, tc.decimals)]

\* Lines 347-368: why the cached sell quote needs a re-quote ("" when it does not).
NeedRequote(st, tc, j_sell, sell_amount_raw, sell_updated_ms, nowms, expected_raw) ==
    IF ~j_sell.some THEN "B_sell_missing_requote"
    ELSE IF j_sell.input_mint # tc.mint \/ j_sell.output_mint # st.stable_mint
         THEN "B_skip_mint_mismatch"
    ELSE IF RLt(st.max_dex_price_impact_pct, j_sell.price_impact_pct)
         THEN "B_skip_dex_impact"
    ELSE IF sell_updated_ms = 0 \/ (nowms - sell_updated_ms) > st.max_quote_age_ms
         THEN "B_sell_stale_requote"
    ELSE IF sell_amount_raw <= 0 THEN "B_sell_amount_raw_missing_requote"
    ELSE LET ratio == Rat(expected_raw, sell_amount_raw)
         IN  IF ~(RLe(Rat(997, 1000), ratio) /\ RLe(ratio, Rat(1003, 1000)))
             THEN "B_amount_mismatch_requote"
             ELSE ""

\* Lines 391-407: the sanity and profit chain of branch B on the sell quote in hand.
BranchBProfit(st, j_sell, token_out2, mid, required) ==
    LET Skip(r)  == [valid |-> FALSE, reason |-> r, profit |-> RZero]
    IN  IF ~j_sell.some THEN Skip("B_skip_no_sell_quote_after_requote")
        ELSE LET stable_out2 == from_raw(j_sell.out_amount_raw, st.stable_decimals)
             IN  IF RLe(stable_out2, RZero) THEN Skip("B_skip_stable_out_le0")
                 ELSE IF ~price_ratio_ok(RDiv(stable_out2, token_out2), mid, st.max_price_ratio)
                      THEN Skip("B_skip_price_ratio")
                 ELSE IF ~gross_cap_ok(stable_out2, st.notional, st.max_gross_profit_pct)
                      THEN Skip("B_skip_gross_cap")
                 ELSE LET profit2 == net_profit(stable_out2, st.notional, required)
                      IN  IF RLe(profit2, RZero) THEN Skip("B_skip_profit_le0")
                          ELSE [valid |-> TRUE, reason |-> "ok", profit |-> profit2]

\* The engine state one evaluation reads and writes, as a record.
EngineState ==
    [qp |-> qp, pcnt |-> pcnt, last_sent |-> last_sent, last_prune_ts |-> last_prune_ts,
     last_b_requote |-> last_b_requote, epc |-> epc, eloc |-> eloc,
     streak |-> streak, emitted |-> emitted]

SetEngineState(s) ==
    /\ qp' = s.qp
    /\ pcnt' = s.pcnt
    /\ last_sent' = s.last_sent
    /\ last_prune_ts' = s.last_prune_ts
    /\ last_b_requote' = s.last_b_requote
    /\ epc' = s.epc
    /\ eloc' = s.eloc
    /\ streak' = s.streak
    /\ emitted' = s.emitted

\* History: the last Signal of each key, with the time and profit of the one before.
Remember(em, key, rec) ==
    [em EXCEPT ![key] =
        [rec EXCEPT !.prev = IF em[key].some
                             THEN [some |-> TRUE, ts |-> em[key].ts, profit |-> em[key].profit]
                             ELSE NoSignal]]

\* Lines 298-322 and 414-438, with the dedup table pr = <<_last_sent,
\* _last_prune_ts>> left by _prune_stale: can_send, mark_sent and the call of
\* on_signal.  s is the state after persistence.hit.
Emit(s, st, t, br, profit, sell_reason, pr) ==
    IF ~can_send(pr[1], SignalKey(t, br, st.notional), profit, st.cooldown_sec,
                 st.min_delta_profit, eNow)
    THEN [s EXCEPT !.last_sent = pr[1], !.last_prune_ts = pr[2]]
    ELSE [s EXCEPT
            !.last_sent = mark_sent(pr[1], SignalKey(t, br, st.notional), profit, eNow),
            !.last_prune_ts = pr[2],
            !.emitted = Remember(@, SignalKey(t, br, st.notional),
                                 [some |-> TRUE, branch |-> br, ts |-> eNow, profit |-> profit,
                                  streak |-> s.streak[<<t, br>>], hits |-> st.persistence_hits,
                                  cooldown_sec |-> st.cooldown_sec,
                                  min_delta_profit |-> st.min_delta_profit,
                                  sell_reason |-> sell_reason, prev |-> NoSignal]),
            !.epc[t] = "sink" \o br]

\* Lines 292-297 and 408-413, after persistence.hit(key, True) gave state s: a
\* valid evaluation of branch br with the given profit.  sell_reason records, for
\* branch B, what NeedRequote says of the sell quote that was used.
Ready(s, st, t, br, profit, sell_reason) ==
    IF ~PersistReady(s.pcnt, <<t, br>>, TRUE, st.persistence_hits) THEN s
    ELSE Emit(s, st, t, br, profit, sell_reason,
              prune_stale(s.last_sent, s.last_prune_ts, st.cooldown_sec, eNow))

ValidEval(s, st, t, br, profit, sell_reason) ==
    Ready([s EXCEPT !.pcnt = PersistHit(@, <<t, br>>, TRUE), !.streak[<<t, br>>] = @ + 1,
                    !.epc[t] = "next" \o br],
          st, t, br, profit, sell_reason)

\* Lines 325 and 441: the branch was evaluated and is not valid.
InvalidEval(s, t, br) ==
    [s EXCEPT !.pcnt = PersistHit(@, <<t, br>>, FALSE), !.streak[<<t, br>>] = 0,
              !.epc[t] = "next" \o br]

\* Line 440 to the end: the tick is over unless on_signal is being awaited.
EndTick(s, t) ==
    IF s.epc[t] = "sinkB" THEN s ELSE [s EXCEPT !.epc[t] = "idle", !.eloc[t] = NoLoc]

\* Lines 391-441: branch B from the sell quote in hand to the end of the tick;
\* sim is the CEX buy simulation of lines 331-345.
FinishB(s, st, t, sim, j_sell, sell_amount_raw, sell_updated_ms) ==
    EndTick(IF BranchBProfit(st, j_sell, sim.token_out2, s.eloc[t].mid,
                             s.eloc[t].required).valid
            THEN ValidEval(s, st, t, "B",
                           BranchBProfit(st, j_sell, sim.token_out2, s.eloc[t].mid,
                                         s.eloc[t].required).profit,
                           NeedRequote(st, EngineTokenCfgs[t], j_sell, sell_amount_raw,
                                       sell_updated_ms, s.eloc[t].now_ms, sim.expected_raw))
            ELSE InvalidEval(s, t, "B"),
            t)

\* Lines 347-390: with the simulation in hand, re-quote (an await) or go on with
\* the cached sell quote.
RequoteOrFinish(s, st, t, loc, sim) ==
    IF ~sim.ok THEN EndTick(InvalidEval(s, t, "B"), t)
    ELSE IF NeedRequote(st, EngineTokenCfgs[t], loc.j_sell, loc.sell_amount_raw,
                        loc.sell_updated_ms, loc.now_ms, sim.expected_raw) # ""
            /\ ~((eNow - s.last_b_requote[t]) < B_REQUOTE_COOLDOWN_SEC)
         THEN [s EXCEPT !.last_b_requote[t] = eNow, !.epc[t] = "requote"]
         ELSE FinishB(s, st, t, sim, loc.j_sell, loc.sell_amount_raw, loc.sell_updated_ms)

\* Lines 327-390: branch B up to the re-quote or, without one, to the end.
StartB(s, st, t) ==
    RequoteOrFinish(s, st, t, s.eloc[t],
                    BranchBSim(st, EngineTokenCfgs[t], BookOf(s.eloc[t].book).asks))

-----------------------------------------------------------------------------
(* Arb engine: actions.                                                    *)

nonEngineVars   == <<jupVars, quarVars, wsVars, extraVars>>
otherEngineVars == <<eNow, eset, ob, ppc, preq, poll_backoff_until, nonEngineVars>>

\* OrderBook.age_ms at time now.
age_ms(o, now) ==
    IF o.ts <= 0 THEN 10000000
    ELSE IF now_ms(now) - o.ts < 0 THEN 0 ELSE now_ms(now) - o.ts

\* The gates both the engine (lines 192-224) and the poller (lines 106-131) apply
\* before they look at quotes: "" when the token passes.
Gate(st, t, books, now) ==
    LET tc   == EngineTokenCfgs[t]
        o    == books[tc.bybit_symbol]
        book == BookOf(o.book)
        ms   == calc_mid_spread(book.bids, book.asks)
    IN  IF is_pump_mint(tc.mint) THEN "skip_pump_mint"
        ELSE IF is_denied(t, tc.bybit_symbol) THEN "skip_denied"
        ELSE IF tc.decimals <= 0 \/ tc.decimals > 18 THEN "skip_bad_decimals"
        ELSE IF o.book = 0 \/ Len(book.bids) = 0 \/ Len(book.asks) = 0 THEN "skip_no_ob"
        ELSE IF age_ms(o, now) > st.max_ob_age_ms THEN "skip_ob_stale"
        ELSE IF ~ms.ok THEN "skip_no_mid"
        ELSE IF RLt(st.max_spread_bps, ms.spread_bps) THEN "skip_spread"
        ELSE ""

\* ArbEngine._reset_persistence
reset_persistence(s, t) ==
    [s EXCEPT !.pcnt = PersistHit(PersistHit(@, <<t, "A">>, FALSE), <<t, "B">>, FALSE),
              !.streak = [k \in PKeys |-> IF k[1] = t THEN 0 ELSE @[k]]]

\* Lines 230-245: drop over-age quotes from the pair, under its lock.
drop_stale(q, nowms, max_quote_age_ms) ==
    LET q1 == IF q.buy_quote.some /\ (nowms - q.buy_updated_ms) > max_quote_age_ms
              THEN [q EXCEPT !.buy_quote = NoQuote, !.buy_updated_ms = 0]
              ELSE q
    IN  IF q1.sell_quote.some /\ (nowms - q1.sell_updated_ms) > max_quote_age_ms
        THEN [q1 EXCEPT !.sell_quote = NoQuote, !.sell_updated_ms = 0, !.sell_amount_raw = 0]
        ELSE q1

\* Lines 226-251: the locals the rest of the tick works on, q being the quote
\* pair after drop_stale.
Snapshot(s, st, t, o, q) ==
    [s EXCEPT !.qp[t] = q,
              !.eloc[t] = [book |-> o.book,
                           mid |-> calc_mid_spread(BookOf(o.book).bids, BookOf(o.book).asks).mid,
                           now_ms |-> now_ms(eNow), j_sell |-> q.sell_quote,
                           sell_amount_raw |-> q.sell_amount_raw,
                           sell_updated_ms |-> q.sell_updated_ms,
                           required |-> required_profit_usd(st.thresholds, st.notional)]]

\* Lines 253-325: branch A on the snapshot, a being the outcome of its filter chain.
RunA(s, st, t, a) ==
    IF a.valid THEN ValidEval(s, st, t, "A", a.profit, "") ELSE InvalidEval(s, t, "A")

\* Line 320: the tick waits in on_signal, or goes on with branch B.
ThenB(s, st, t) == IF s.epc[t] = "sinkA" THEN s ELSE StartB(s, st, t)

\* Lines 226-441 on the snapshot s.
Evaluate(s, st, t) ==
    ThenB(RunA(s, st, t,
               BranchA(st, EngineTokenCfgs[t], s.qp[t].buy_quote,
                       BookOf(s.eloc[t].book).bids, s.eloc[t].mid, s.eloc[t].required)),
          st, t)

\* _run_one_token from its start to its first await inside the branches (the
\* call of on_signal or the sell re-quote), or to its end.
EvalStart(t) ==
    /\ epc[t] = "idle"
    /\ ticks < MaxTicks
    /\ ticks' = ticks + 1
    /\ IF Gate(eset, t, ob, eNow) # ""
       THEN SetEngineState(reset_persistence(EngineState, t))
       ELSE SetEngineState(
                Evaluate(Snapshot(EngineState, eset, t, ob[EngineTokenCfgs[t].bybit_symbol],
                                  drop_stale(qp[t], now_ms(eNow), eset.max_quote_age_ms)),
                         eset, t))
    /\ UNCHANGED otherEngineVars

\* on_signal returns from the branch-A Signal: normally, and branch B runs; or by
\* raising, and the except clause of line 443 ends the tick.
SinkAReturn(t, raised) ==
    /\ epc[t] = "sinkA"
    /\ IF raised
       THEN SetEngineState([EngineState EXCEPT !.epc[t] = "idle", !.eloc[t] = NoLoc,
                                               !.streak[<<t, "B">>] = 0])
       ELSE SetEngineState(StartB(EngineState, eset, t))
    /\ UNCHANGED <<otherEngineVars, ticks>>

\* Line 377: the CEX buy simulation behind the re-quote in progress; its
\* expected_raw is the amount asked for.
RequoteSim(t) == BranchBSim(eset, EngineTokenCfgs[t], BookOf(eloc[t].book).asks)
RequoteAmount(t) == RequoteSim(t).expected_raw

\* Lines 383-389: the fresh quote replaces the cached one.
StoreSell(s, t, fresh_sell, amount_raw) ==
    [s EXCEPT !.qp[t].sell_quote = fresh_sell,
              !.qp[t].sell_updated_ms = now_ms(eNow),
              !.qp[t].sell_amount_raw = amount_raw]

\* Lines 377-389: quote_exact_in returns fresh_sell to the re-quote of branch B.
RequoteReturn(t, fresh_sell) ==
    /\ epc[t] = "requote"
    /\ IF ~fresh_sell.some
          \/ RLt(eset.max_dex_price_impact_pct, fresh_sell.price_impact_pct)
       THEN SetEngineState(FinishB(EngineState, eset, t, RequoteSim(t), eloc[t].j_sell,
                                   eloc[t].sell_amount_raw, eloc[t].sell_updated_ms))
       ELSE SetEngineState(FinishB(StoreSell(EngineState, t, fresh_sell, RequoteAmount(t)),
                                   eset, t, RequoteSim(t), fresh_sell, RequoteAmount(t),
                                   now_ms(eNow)))
    /\ UNCHANGED <<otherEngineVars, ticks>>

\* on_signal returns from the branch-B Signal, normally or by raising: the tick ends.
SinkBReturn(t, raised) ==
    /\ epc[t] = "sinkB"
    /\ SetEngineState([EngineState EXCEPT !.epc[t] = "idle", !.eloc[t] = NoLoc])
    /\ UNCHANGED <<otherEngineVars, ticks>>

\* handlers.on_ob for a snapshot message of a symbol that is not quarantined.
OnOb(sym, id) ==
    /\ ob' = [ob EXCEPT ![sym] = [book |-> id, ts |-> now_ms(eNow)]]
    /\ UNCHANGED <<eNow, eset, qp, pcnt, last_sent, last_prune_ts, last_b_requote, epc, eloc,
                   ppc, preq, poll_backoff_until, ticks, streak, emitted, nonEngineVars>>

\* QuotePoller: runner and _poll_one_token up to the BUY request (lines 156, 100-136).
PollStart(t) ==
    /\ ppc[t] = "idle"
    /\ eNow >= poll_backoff_until[t]
    /\ Gate(eset, t, ob, eNow) = ""
    /\ ppc' = [ppc EXCEPT ![t] = "quote"]
    /\ preq' = [preq EXCEPT ![t] = to_raw(eset.poller.notional, eset.stable_decimals)]
    /\ UNCHANGED <<eNow, eset, ob, qp, pcnt, last_sent, last_prune_ts, last_b_requote, epc,
                   eloc, poll_backoff_until, ticks, streak, emitted, nonEngineVars>>

\* Lines 138-145: the BUY request returns buy_q.
PollReturn(t, buy_q) ==
    /\ ppc[t] = "quote"
    /\ ppc' = [ppc EXCEPT ![t] = "idle"]
    /\ preq' = [preq EXCEPT ![t] = 0]
    /\ IF buy_q.some
       THEN /\ qp' = [qp EXCEPT ![t].buy_quote = buy_q, ![t].buy_updated_ms = now_ms(eNow)]
            /\ poll_backoff_until' = [poll_backoff_until EXCEPT ![t] = 0]
       ELSE /\ qp' = qp
            /\ poll_backoff_until' =
                   [poll_backoff_until EXCEPT ![t] = eNow + PollerDefaults.backoff_on_none_sec]
    /\ UNCHANGED <<eNow, eset, ob, pcnt, last_sent, last_prune_ts, last_b_requote, epc, eloc,
                   ticks, streak, emitted, nonEngineVars>>

\* Time passes, to a later instant.
EngineTick(t1) ==
    /\ t1 > eNow
    /\ eNow' = t1
    /\ UNCHANGED <<eset, ob, qp, pcnt, last_sent, last_prune_ts, last_b_requote, epc, eloc,
                   ppc, preq, poll_backoff_until, ticks, streak, emitted, nonEngineVars>>

\* The RuntimeSettings a reload may bring: the start-up values with another
\* notional_usd or jupiter_poll_interval_sec.
SettingsTried ==
    { [InitSettings EXCEPT !.notional = RInt(c[1]), !.poller.poll_interval = c[2]] :
        c \in {<<100, 1>>, <<98, 30>>} }

\* reload_settings, line 162
poller_max_quote_age_ms(poll_interval) ==
    IF poll_interval * 3 * 1000 > 5000 THEN poll_interval * 3 * 1000 ELSE 5000

\* reload_settings (lines 136-164): every assignment it makes.  The engine's
\* own max_quote_age_ms is not among them.
reload_settings(settings) ==
    /\ eset' = [eset EXCEPT
                  !.thresholds = settings.thresholds,
                  !.notional = settings.notional,
                  !.max_cex_slippage_bps = settings.max_cex_slippage_bps,
                  !.max_dex_price_impact_pct = settings.max_dex_price_impact_pct,
                  !.max_price_ratio = settings.max_price_ratio,
                  !.max_gross_profit_pct = settings.max_gross_profit_pct,
                  !.max_spread_bps = settings.max_spread_bps,
                  !.min_depth_coverage_pct = settings.min_depth_coverage_pct,
                  !.max_ob_age_ms = settings.max_ob_age_ms,
                  !.persistence_hits =
                      IF settings.persistence_hits > 1 THEN settings.persistence_hits ELSE 1,
                  !.cooldown_sec = settings.cooldown_sec,
                  !.min_delta_profit = settings.min_delta_profit,
                  !.poller = [notional |-> settings.notional,
                              poll_interval |-> settings.poller.poll_interval,
                              max_quote_age_ms |->
                                  poller_max_quote_age_ms(settings.poller.poll_interval)]]
    /\ UNCHANGED <<eNow, ob, qp, pcnt, last_sent, last_prune_ts, last_b_requote, epc, eloc,
                   ppc, preq, poll_backoff_until, ticks, streak, emitted, nonEngineVars>>

EngineSymbols == { EngineTokenCfgs[t].bybit_symbol : t \in Tokens }

InitEngine ==
    /\ eNow = InitClock
    /\ eset = InitSettings
    /\ ob = [sym \in EngineSymbols |-> NoOb]
    /\ qp = [t \in Tokens |-> NoPair]
    /\ pcnt = [k \in PKeys |-> 0]
    /\ last_sent = [k \in Keys |-> NoSent]
    /\ last_prune_ts = 0
    /\ last_b_requote = [t \in Tokens |-> 0]
    /\ epc = [t \in Tokens |-> "idle"]
    /\ eloc = [t \in Tokens |-> NoLoc]
    /\ ppc = [t \in Tokens |-> "idle"]
    /\ preq = [t \in Tokens |-> 0]
    /\ poll_backoff_until = [t \in Tokens |-> 0]
    /\ ticks = 0
    /\ streak = [k \in PKeys |-> 0]
    /\ emitted = [k \in Keys |-> NoSignal]

\* Every step of the engine and its poller but the start of an evaluation.
EngineRest ==
    \/ \E t \in Tokens, raised \in BOOLEAN : SinkAReturn(t, raised)
    \/ \E t \in Tokens : \E fresh_sell \in SellAnswers(t, RequoteAmount(t)) : RequoteReturn(t, fresh_sell)
    \/ \E t \in Tokens, raised \in BOOLEAN : SinkBReturn(t, raised)
    \/ \E sym \in EngineSymbols, id \in BookIds : OnOb(sym, id)
    \/ \E t \in Tokens : PollStart(t)
    \/ \E t \in Tokens : \E buy_q \in BuyAnswers(t, preq[t]) \cup {NoQuote} : PollReturn(t, buy_q)
    \/ \E t1 \in ClockPoints : EngineTick(t1)

NextEngine ==
    \/ \E t \in Tokens : EvalStart(t)
    \/ EngineRest

\* The engine with its settings changed while it runs.  The runs explored
\* have MaxReloadEvals evaluations, and their reloads arrive before evaluation
\* number MaxReloadTick starts.
NextReload ==
    \/ \E t \in Tokens : ticks < MaxReloadEvals /\ EvalStart(t)
    \/ EngineRest
    \/ \E settings \in SettingsTried : ticks < MaxReloadTick /\ reload_settings(settings)

-----------------------------------------------------------------------------
(* Quarantine manager (core/quarantine_manager.py, core/quarantine.py).    *)

\* Bounds: add() calls made, and clock readings after the first.  The clock is
\* read every QuarStep seconds.
MaxAdds   == 3
MaxQTicks == 4
QuarStep  == 5

\* quarantine_manager.py line 112 (anti-spam window of add), line 121 (an
\* existing entry that outlasts now + 1800 is kept); jupiter_sanitizer.py line 11.
ADD_GUARD_SEC            == 15
KEEP_LONGER_SEC          == 1800
JUP_NOT_TRADABLE_TTL_SEC == 86400

\* now_ts() is far past the epoch: the clock starts where now - 0 >= ADD_GUARD_SEC.
InitQClock == ADD_GUARD_SEC

full_symbols  == <<"S1USDT", "S2USDT">>
full_tokens   == [K1 |-> [bybit_symbol |-> "S1USDT"], K2 |-> [bybit_symbol |-> "S2USDT"]]
base_denylist == {}
QSymbols      == { full_symbols[i] : i \in DOMAIN full_symbols }

\* The ttl_sec values add() is called with: a short one and the sanitizer's 24 h.
AddTtls == {QuarStep, JUP_NOT_TRADABLE_TTL_SEC}

\* load_quarantine maps the file to symbol -> entry; the model keeps until_ts
\* (0 = the symbol has no entry).  prune_expired keeps entries with until_ts > ts.
prune_expired(q, ts) == [sym \in DOMAIN q |-> IF q[sym] > ts THEN q[sym] ELSE 0]
QKeys(q) == { sym \in DOMAIN q : q[sym] # 0 }

\* save_quarantine: the content is replaced and the file's mtime moves forward.
save_quarantine(f, q) == [until |-> q, mtime |-> f.mtime + 1]

\* _apply_quarantine_to_cfg (with _rebuild_denylist_inplace) for a quarantined set.
apply_quarantine_to_cfg(qs) ==
    [symbols |-> SelectSeq(full_symbols, LAMBDA sym : sym \notin qs),
     tokens  |-> { k \in DOMAIN full_tokens : full_tokens[k].bybit_symbol \notin qs },
     denylist_symbols |-> base_denylist \cup qs]

\* _rebuild_token_cfgs_inplace
rebuild_token_cfgs_all(c) == [k \in DOMAIN full_tokens |-> full_tokens[k]]

rebuild_token_cfgs(c) == [k \in c.tokens |-> full_tokens[k]]

\* Lines 131-134 (and 122-125): the in-memory update add() makes under _lock.
AddApply(sym) ==
    /\ quarantined_set' = quarantined_set \cup {sym}
    /\ cfg' = apply_quarantine_to_cfg(quarantined_set \cup {sym})
    /\ token_cfgs' = rebuild_token_cfgs(apply_quarantine_to_cfg(quarantined_set \cup {sym}))

\* What a caller sees when add(sym) has returned: contains(sym), and whether the
\* active symbol list and the token maps still hold sym.  qs, c, tc are the
\* manager's set, cfg and token_cfgs at that moment.
Returned(call, qs, c, tc) ==
    [call EXCEPT !.pc = "done",
                 !.contains = call.sym \in qs,
                 !.listed = \E i \in DOMAIN c.symbols : c.symbols[i] = call.sym,
                 !.mapped = \/ \E k \in c.tokens : full_tokens[k].bybit_symbol = call.sym
                            \/ \E k \in DOMAIN tc : tc[k].bybit_symbol = call.sym]

NewCall(sym, ttl) ==
    [pc |-> "new", sym |-> sym, ttl |-> ttl, now |-> qNow,
     active |-> \E i \in DOMAIN cfg.symbols : cfg.symbols[i] = sym,
     wrote |-> FALSE, contains |-> FALSE, listed |-> FALSE, mapped |-> FALSE]

\* add() from the moment it holds _file_lock (lines 111-134), for the call
\* record c at index id, to its return or to its wait for _lock.
AddBody(base, lk, id, c) ==
    LET q == prune_expired(qfile.until, qNow)
    IN  IF (c.now - last_write[c.sym]) < ADD_GUARD_SEC
        THEN \* line 113: return
             /\ qadd' = [base EXCEPT ![id] = Returned(c, quarantined_set, cfg, token_cfgs)]
             /\ qlock' = lk
             /\ UNCHANGED <<qfile, quarantined_set, cfg, token_cfgs, last_write>>
        ELSE IF q[c.sym] # 0 /\ q[c.sym] > (c.now + KEEP_LONGER_SEC)
        THEN \* lines 121-126: keep the longer entry, update memory under _lock
             /\ last_write' = [last_write EXCEPT ![c.sym] = c.now]
             /\ qfile' = qfile
             /\ IF lk.lock = "" /\ lk.waiters = <<>>
                THEN /\ AddApply(c.sym)
                     /\ qadd' = [base EXCEPT ![id] =
                                    Returned(c, quarantined_set', cfg', token_cfgs')]
                     /\ qlock' = lk
                ELSE /\ qadd' = [base EXCEPT ![id] = [c EXCEPT !.pc = "wait_lock_in"]]
                     /\ qlock' = [lk EXCEPT !.file_lock = id, !.waiters = Append(@, id)]
                     /\ UNCHANGED <<quarantined_set, cfg, token_cfgs>>
        ELSE \* lines 128-134: write the entry, leave _file_lock, update memory
             /\ last_write' = [last_write EXCEPT ![c.sym] = c.now]
             /\ qfile' = save_quarantine(qfile, [q EXCEPT ![c.sym] = c.now + c.ttl])
             /\ IF lk.lock = "" /\ lk.waiters = <<>>
                THEN /\ AddApply(c.sym)
                     /\ qadd' = [base EXCEPT ![id] =
                                    Returned([c EXCEPT !.wrote = TRUE],
                                             quarantined_set', cfg', token_cfgs')]
                     /\ qlock' = lk
                ELSE /\ qadd' = [base EXCEPT ![id] =
                                    [c EXCEPT !.pc = "wait_lock_out", !.wrote = TRUE]]
                     /\ qlock' = [lk EXCEPT !.waiters = Append(@, id)]
                     /\ UNCHANGED <<quarantined_set, cfg, token_cfgs>>

nonQuarVars == <<engineVars, jupVars, wsVars, extraVars>>

\* A caller (the sanitizer, the WS health task) calls add(sym, reason, ttl).
AddCall(sym, ttl) ==
    /\ Len(qadd) < MaxAdds
    /\ IF qlock.file_lock # 0 \/ qlock.file_waiters # <<>>
       THEN \* line 110: wait for _file_lock
            /\ qadd' = Append(qadd, [NewCall(sym, ttl) EXCEPT !.pc = "wait_file"])
            /\ qlock' = [qlock EXCEPT !.file_waiters = Append(@, Len(qadd) + 1)]
            /\ UNCHANGED <<qfile, quarantined_set, cfg, token_cfgs, last_write>>
       ELSE AddBody(Append(qadd, NewCall(sym, ttl)), qlock, Len(qadd) + 1, NewCall(sym, ttl))
    /\ UNCHANGED <<qNow, qsync, qcluster, nonQuarVars>>

\* An add() call waiting for _file_lock gets it (first waiter first).
AddFileResume(id) ==
    /\ qlock.file_lock = 0
    /\ qlock.file_waiters # <<>>
    /\ id = Head(qlock.file_waiters)
    /\ AddBody(qadd, [qlock EXCEPT !.file_waiters = Tail(@)], id, qadd[id])
    /\ UNCHANGED <<qNow, qsync, qcluster, nonQuarVars>>

\* An add() call waiting for _lock gets it (first waiter first), updates the
\* memory, leaves the locks it holds and returns.
AddLockResume(id) ==
    /\ qlock.lock = ""
    /\ qlock.waiters # <<>>
    /\ id = Head(qlock.waiters)
    /\ AddApply(qadd[id].sym)
    /\ qadd' = [qadd EXCEPT ![id] = Returned(qadd[id], quarantined_set', cfg', token_cfgs')]
    /\ qlock' = [qlock EXCEPT !.waiters = Tail(@),
                              !.file_lock = IF @ = id THEN 0 ELSE @]
    /\ UNCHANGED <<qNow, qfile, last_write, qsync, qcluster, nonQuarVars>>

\* Lines 159-169 of sync_loop: what the file holds after the read (the pruned
\* content is written back when it differs).
SyncFile(f, q2) == IF QKeys(q2) # QKeys(f.until) THEN save_quarantine(f, q2) ELSE f

\* One iteration of sync_loop (lines 151-193) up to its next await: the sleep,
\* or the symbols-changed callback, which it awaits holding _lock.  The
\* callback reads cfg.bybit.symbols when it starts.  The loop sleeps poll_sec
\* between iterations, so add() calls that were waiting for a lock run first.
SyncIteration ==
    /\ qsync.pc = "sleep"
    /\ qlock.lock = "" /\ qlock.waiters = <<>>
    /\ qlock.file_lock = 0 /\ qlock.file_waiters = <<>>
    /\ IF qfile.mtime > qsync.last_mtime
       THEN /\ qfile' = SyncFile(qfile, prune_expired(qfile.until, qNow))
            /\ IF QKeys(prune_expired(qfile.until, qNow)) # quarantined_set
               THEN /\ quarantined_set' = QKeys(prune_expired(qfile.until, qNow))
                    /\ cfg' = apply_quarantine_to_cfg(quarantined_set')
                    /\ token_cfgs' = rebuild_token_cfgs(cfg')
                    /\ qsync' = [pc |-> "callback", last_mtime |-> qfile.mtime,
                                 arg |-> cfg'.symbols, calls |-> qsync.calls + 1]
                    /\ qlock' = [qlock EXCEPT !.lock = "sync"]
               ELSE /\ qsync' = [qsync EXCEPT !.last_mtime = qfile.mtime]
                    /\ UNCHANGED <<quarantined_set, cfg, token_cfgs, qlock>>
       ELSE UNCHANGED <<qfile, quarantined_set, cfg, token_cfgs, qsync, qlock>>
    /\ UNCHANGED <<qNow, last_write, qadd, qcluster, nonQuarVars>>

\* on_symbols_changed returns: update_symbols has handed the symbol list to the
\* WS cluster (handlers.py lines 117-121); sync_loop leaves _lock and sleeps.
SyncCallbackReturn ==
    /\ qsync.pc = "callback"
    /\ qcluster' = qsync.arg
    /\ qsync' = [qsync EXCEPT !.pc = "sleep", !.arg = <<>>]
    /\ qlock' = [qlock EXCEPT !.lock = ""]
    /\ UNCHANGED <<qNow, qfile, quarantined_set, cfg, token_cfgs, last_write, qadd, nonQuarVars>>

\* Time passes.
QuarTick ==
    /\ qNow < InitQClock + (MaxQTicks * QuarStep)
    /\ qNow' = qNow + QuarStep
    /\ UNCHANGED <<qfile, quarantined_set, cfg, token_cfgs, last_write, qlock, qsync, qadd,
                   qcluster, nonQuarVars>>

\* The quarantine file at start-up: none, or one holding a day-long entry.
InitQuarFiles ==
    { [until |-> [sym \in QSymbols |-> 0], mtime |-> 0],
      [until |-> [sym \in QSymbols |->
                     IF sym = full_symbols[2] THEN InitQClock + JUP_NOT_TRADABLE_TTL_SEC ELSE 0],
       mtime |-> 1] }

\* The state after load_initial (lines 66-102; every token of the model is
\* well-formed, so no BAD_TOKEN_CFG entry is added) with the cluster started
\* on cfg.bybit.symbols.
QuarStart(f) ==
    /\ qNow = InitQClock
    /\ qfile = f
    /\ quarantined_set = QKeys(prune_expired(qfile.until, qNow))
    /\ cfg = apply_quarantine_to_cfg(quarantined_set)
    /\ token_cfgs = rebuild_token_cfgs(cfg)
    /\ last_write = [sym \in QSymbols |-> 0]
    /\ qlock = [lock |-> "", waiters |-> <<>>, file_lock |-> 0, file_waiters |-> <<>>]
    /\ qsync = [pc |-> "sleep", last_mtime |-> 0, arg |-> <<>>, calls |-> 0]
    /\ qadd = <<>>
    /\ qcluster = cfg.symbols

NoFile == [until |-> [sym \in QSymbols |-> 0], mtime |-> 0]

InitQuar == QuarStart(NoFile)

NextQuar ==
    \/ \E sym \in QSymbols, ttl \in AddTtls : AddCall(sym, ttl)
    \/ \E id \in 1..MaxAdds : AddFileResume(id)
    \/ \E id \in 1..MaxAdds : AddLockResume(id)
    \/ SyncIteration
    \/ SyncCallbackReturn
    \/ QuarTick

-----------------------------------------------------------------------------
(* Bybit WS client and cluster (connectors/bybit_ws.py, core/ws_cluster.py). *)

\* Bounds: update_symbols calls, connections one client makes, and the shard
\* size (100 in app/bootstrap.py, scaled down).
MaxUpdates         == 2
MaxConnects        == 2
max_symbols_per_ws == 2

\* cfg.bybit.depth (core/config.py line 17).
depth == 50

\* The configured symbols; update_symbols receives this list less the
\* quarantined symbols (handlers.py line 119).
WSAll   == <<"A", "B", "C">>
WSMasks == [DOMAIN WSAll -> BOOLEAN]
WSLists == { SelectSeq(WSAll, LAMBDA sym : \E i \in DOMAIN WSAll : WSAll[i] = sym /\ m[i]) :
             m \in WSMasks }

\* utils.collections.chunked
chunked_whole_only(seq, size) ==
    [k \in 1..(Len(seq) \div size) |-> SubSeq(seq, ((k - 1) * size) + 1, k * size)]

chunked(seq, size) ==
    [k \in 1..((Len(seq) + size - 1) \div size) |->
        SubSeq(seq, ((k - 1) * size) + 1, IF k * size < Len(seq) THEN k * size ELSE Len(seq))]

\* BybitWS._topics_for_symbols
topics_for_symbols(symbols) ==
    { <<"orderbook", depth, symbols[i]>> : i \in { j \in DOMAIN symbols : symbols[j] # "" } }

\* One run of _apply_topic_delta: where it is, and the delta it computed.
ApplyOff == [pc |-> "off", to_unsub |-> {}, to_sub |-> {}]

\* BybitWS.__init__ with symbols = [] (ws_cluster.py lines 59-70): the client
\* and its run() task, which starts by connecting.
NewClient ==
    [desired |-> {}, subscribed |-> {}, conn |-> "connecting", desired_changed |-> FALSE,
     initial |-> ApplyOff, control |-> ApplyOff, set_tasks |-> <<>>, connects |-> 1,
     failed |-> FALSE]

\* _apply_topic_delta lines 172-196, up to its first request: the delta of
\* desired against subscribed; done when the delta is empty.  With at most
\* max_symbols_per_ws topics each phase is one chunk of subscribe_batch = 5.
apply_topic_delta(desired, subscribed, done) ==
    IF desired \ subscribed = {} /\ subscribed \ desired = {}
    THEN [pc |-> done, to_unsub |-> {}, to_sub |-> {}]
    ELSE [pc |-> IF subscribed \ desired # {} THEN "unsub" ELSE "sub",
          to_unsub |-> subscribed \ desired, to_sub |-> desired \ subscribed]

\* The connection ends (_connect_and_run lines 145-159, run lines 90-97): the
\* tasks are cancelled and run() connects again.
Teardown(cl) ==
    [cl EXCEPT !.conn = "connecting", !.initial = ApplyOff, !.control = ApplyOff,
               !.connects = @ + 1]

nonWSVars == <<engineVars, jupVars, quarVars, extraVars>>

Shard(shards, idx) == IF idx <= Len(shards) THEN shards[idx] ELSE <<>>

\* BybitWSCluster.update_symbols (and start): clients are added up to the
\* number of shards, every client gets a set_symbols task for its shard, or
\* for the empty list past the last shard.
ScheduleShards(clients, shards) ==
    [idx \in DOMAIN clients |->
        [clients[idx] EXCEPT !.set_tasks = Append(@, topics_for_symbols(Shard(shards, idx)))]]

Grown(clients, n) ==
    [idx \in 1..(IF n > Len(clients) THEN n ELSE Len(clients)) |->
        IF idx <= Len(clients) THEN clients[idx] ELSE NewClient]

update_symbols(symbols) ==
    /\ wupdates < MaxUpdates
    /\ wupdates' = wupdates + 1
    /\ wsymbols' = symbols
    /\ wclients' = ScheduleShards(Grown(wclients, Len(chunked(symbols, max_symbols_per_ws))),
                                  chunked(symbols, max_symbols_per_ws))
    /\ UNCHANGED nonWSVars

SetTask_newest_first(c) ==
    /\ c \in DOMAIN wclients
    /\ wclients[c].set_tasks # <<>>
    /\ wclients' = [wclients EXCEPT
          ![c].desired = wclients[c].set_tasks[Len(wclients[c].set_tasks)],
          ![c].desired_changed = TRUE,
          ![c].set_tasks = SubSeq(@, 1, Len(@) - 1)]
    /\ UNCHANGED <<wsymbols, wupdates, nonWSVars>>

\* The task set_symbols scheduled runs (_set, lines 77-80); tasks run in the
\* order they were scheduled.
SetTask(c) ==
    /\ c \in DOMAIN wclients
    /\ wclients[c].set_tasks # <<>>
    /\ wclients' = [wclients EXCEPT ![c].desired = Head(wclients[c].set_tasks),
                                    ![c].desired_changed = TRUE,
                                    ![c].set_tasks = Tail(@)]
    /\ UNCHANGED <<wsymbols, wupdates, nonWSVars>>

\* websockets.connect returns (_connect_and_run lines 119-137): the subscribed
\* set is emptied, the control task is created, and the initial
\* _apply_topic_delta runs up to its first request.
Connect(c) ==
    /\ c \in DOMAIN wclients
    /\ wclients[c].conn = "connecting"
    /\ wclients' = [wclients EXCEPT ![c].conn = "up",
                                    ![c].subscribed = {},
                                    ![c].control = [ApplyOff EXCEPT !.pc = "wait"],
                                    ![c].initial =
                                        apply_topic_delta(wclients[c].desired, {}, "done")]
    /\ UNCHANGED <<wsymbols, wupdates, nonWSVars>>

\* _control_loop lines 166-169: the control task finds the event set, clears
\* it and runs _apply_topic_delta up to its first request.
ControlWake(c) ==
    /\ c \in DOMAIN wclients
    /\ wclients[c].conn = "up"
    /\ wclients[c].control.pc = "wait"
    /\ wclients[c].desired_changed
    /\ wclients' = [wclients EXCEPT ![c].desired_changed = FALSE,
                                    ![c].control =
                                        apply_topic_delta(wclients[c].desired,
                                                          wclients[c].subscribed, "wait")]
    /\ UNCHANGED <<wsymbols, wupdates, nonWSVars>>

\* What a run of _apply_topic_delta does when its request is acknowledged
\* (lines 189-199): the subscribed set takes the delta, and the run goes on to
\* the subscribe request or ends.  An initial run that ends finds the control
\* task dead or alive (lines 140-148).
Acked(cl, who, a) ==
    IF a.pc = "unsub" /\ a.to_sub # {}
    THEN [cl EXCEPT !.subscribed = @ \ a.to_unsub, ![who] = [a EXCEPT !.pc = "sub"]]
    ELSE IF who = "control"
    THEN [cl EXCEPT !.subscribed = IF a.pc = "unsub" THEN @ \ a.to_unsub ELSE @ \cup a.to_sub,
                    !.control = [ApplyOff EXCEPT !.pc = "wait"]]
    ELSE IF cl.control.pc = "dead"
    THEN Teardown([cl EXCEPT !.subscribed =
                      IF a.pc = "unsub" THEN @ \ a.to_unsub ELSE @ \cup a.to_sub])
    ELSE [cl EXCEPT !.subscribed = IF a.pc = "unsub" THEN @ \ a.to_unsub ELSE @ \cup a.to_sub,
                    !.initial = [ApplyOff EXCEPT !.pc = "done"]]

\* _send_with_ack returns: the request was acknowledged within its attempts.
AckOk(c, who) ==
    /\ c \in DOMAIN wclients
    /\ wclients[c].conn = "up"
    /\ wclients[c][who].pc \in {"unsub", "sub"}
    /\ wclients' = [wclients EXCEPT ![c] = Acked(wclients[c], who, wclients[c][who])]
    /\ UNCHANGED <<wsymbols, wupdates, nonWSVars>>

\* _send_with_ack raises after its last attempt (lines 240-259).  Raised in the
\* initial run it ends the connection; raised in the control task it ends the
\* task, and the connection ends once the initial run is over.
AckFail(c, who) ==
    /\ c \in DOMAIN wclients
    /\ wclients[c].conn = "up"
    /\ wclients[c][who].pc \in {"unsub", "sub"}
    /\ wclients[c].connects < MaxConnects
    /\ wclients' = [wclients EXCEPT ![c] =
          IF who = "initial" \/ wclients[c].initial.pc = "done"
          THEN Teardown([wclients[c] EXCEPT !.failed = TRUE])
          ELSE [wclients[c] EXCEPT !.failed = TRUE,
                                   !.control = [ApplyOff EXCEPT !.pc = "dead"]]]
    /\ UNCHANGED <<wsymbols, wupdates, nonWSVars>>

WSClientIds == 1..((Len(WSAll) + max_symbols_per_ws - 1) \div max_symbols_per_ws)
Appliers    == {"initial", "control"}

NextWS ==
    \/ \E symbols \in WSLists : update_symbols(symbols)
    \/ \E c \in WSClientIds : SetTask(c)
    \/ \E c \in WSClientIds : Connect(c)
    \/ \E c \in WSClientIds : ControlWake(c)
    \/ \E c \in WSClientIds, who \in Appliers : AckOk(c, who)
    \/ \E c \in WSClientIds, who \in Appliers : AckFail(c, who)

-----------------------------------------------------------------------------
(* Jupiter quote client (connectors/jupiter.py).                           *)

\* Bounds: quote_exact_in calls in progress at once, clock steps, and the size
\* caps of NegativeCache.cleanup (50000 and 200000 at line 138, scaled down).
MaxInFlight   == 2
MaxJTicks     == 1
MaxTokenItems == 1
MaxPairItems  == 1

\* Seconds between two readings of time.monotonic().
JupStep == 60

\* The literal pair TTL of a TOKEN_NOT_TRADABLE reply (line 349).
NOT_TRADABLE_PAIR_TTL == 60

\* JupiterClient.__init__ defaults (lines 197-201); max_retries comes from the
\* configuration.
JupArgs(max_retries) ==
    [max_retries |-> max_retries, ttl_no_route |-> 300, ttl_not_tradable |-> 21600,
     ttl_amount_too_big |-> 90]

\* A loop that runs once more than configured.
max_attempts_one_more(c) == (IF c.max_retries > 1 THEN c.max_retries ELSE 1) + 1

\* self._max_retries (line 218)
max_attempts(c) == IF c.max_retries > 1 THEN c.max_retries ELSE 1

\* dict.get(key, 0.0) on a cache table
Until(tab, key) ==
    IF \E i \in DOMAIN tab : tab[i].key = key
    THEN tab[CHOOSE i \in DOMAIN tab : tab[i].key = key].until
    ELSE 0

\* dict[key] = until: an existing key keeps its position
Put(tab, key, until) ==
    IF \E i \in DOMAIN tab : tab[i].key = key
    THEN [i \in DOMAIN tab |-> IF tab[i].key = key THEN [key |-> key, until |-> until] ELSE tab[i]]
    ELSE Append(tab, [key |-> key, until |-> until])

\* A check that forgets the pair table.
is_blocked_tokens_only(tok, pair, input_mint, output_mint, now) ==
    \/ Until(tok, input_mint) > now
    \/ Until(tok, output_mint) > now

\* NegativeCache.is_blocked
is_blocked(tok, pair, input_mint, output_mint, now) ==
    \/ Until(tok, input_mint) > now
    \/ Until(tok, output_mint) > now
    \/ Until(pair, <<input_mint, output_mint>>) > now

\* max(1.0, float(ttl_sec))
TtlFloor(ttl) == IF ttl > 1 THEN ttl ELSE 1

\* NegativeCache.block_token
block_token(tok, mint, ttl, now) ==
    IF mint = "" THEN tok
    ELSE IF now + TtlFloor(ttl) > Until(tok, mint) THEN Put(tok, mint, now + TtlFloor(ttl))
    ELSE tok

\* A block_pair that overwrites the deadline without comparing.
block_pair_overwrite(pair, input_mint, output_mint, ttl, now) ==
    Put(pair, <<input_mint, output_mint>>, now + TtlFloor(ttl))

\* NegativeCache.block_pair
block_pair(pair, input_mint, output_mint, ttl, now) ==
    IF now + TtlFloor(ttl) > Until(pair, <<input_mint, output_mint>>)
    THEN Put(pair, <<input_mint, output_mint>>, now + TtlFloor(ttl))
    ELSE pair

\* The position of an entry in sorted(items, key=until): the sort is stable.
SortRank(tab, i) ==
    Cardinality({ j \in DOMAIN tab :
                    \/ tab[j].until < tab[i].until
                    \/ tab[j].until = tab[i].until /\ j < i })

\* Lines 153-163: over max_items, the first max(1, int(len * 0.2)) entries in
\* deadline order are dropped.
BoundSize(tab, max_items) ==
    IF Len(tab) > max_items
    THEN SelectSeq(tab, LAMBDA e :
            SortRank(tab, CHOOSE i \in DOMAIN tab : tab[i].key = e.key)
                >= (IF Len(tab) \div 5 > 1 THEN Len(tab) \div 5 ELSE 1))
    ELSE tab

\* Lines 141-150: entries with until <= now are removed.
RemoveExpired(tab, now) == SelectSeq(tab, LAMBDA e : e.until > now)

\* NegativeCache.cleanup on one table
cleanup(tab, now, max_items) == BoundSize(RemoveExpired(tab, now), max_items)

\* The mints: the stable mint and a token, quoted in both directions.
JStable == "USDC"
JPairs  == { <<JStable, "M1">>, <<"M1", JStable>> }

\* The arguments quote_exact_in is called with: the pairs with a positive
\* amount, an empty mint, and a zero amount.
JInputs ==
    { [input_mint |-> pr[1], output_mint |-> pr[2], amount_raw |-> 100] : pr \in JPairs }
    \cup { [input_mint |-> "", output_mint |-> "M1", amount_raw |-> 100],
           [input_mint |-> JStable, output_mint |-> "M1", amount_raw |-> 0] }

\* What one HTTP request ends with: the status (0 = no response), and what
\* came of it.
\*   200/quote        the body is read and parsed
\*   200/body_net     r.json() raises aiohttp.ClientError or asyncio.TimeoutError
\*   200/body_bad     r.json() or a field conversion raises another exception
\*   429, 500         retryable statuses
\*   400/...          the error codes of lines 340-374 (mint: the mint the
\*                    TOKEN_NOT_TRADABLE message names; "" when it names
\*                    none, as in the replies tried here)
\*   404              any other status
\*   0/net            the request raises ClientError or TimeoutError
\*   0/exc            the request raises another exception
Reply(status, what, mint) == [status |-> status, what |-> what, mint |-> mint]
Replies ==
    { Reply(200, "quote", ""), Reply(200, "body_net", ""), Reply(200, "body_bad", ""),
      Reply(429, "retry", ""), Reply(500, "retry", ""),
      Reply(400, "TOKEN_NOT_TRADABLE", ""),
      Reply(400, "COULD_NOT_FIND_ANY_ROUTE", ""),
      Reply(400, "ROUTE_PLAN_DOES_NOT_CONSUME_ALL_THE_AMOUNT", ""),
      Reply(400, "other", ""), Reply(404, "other", ""),
      Reply(0, "net", ""), Reply(0, "exc", "") }
NoReply == Reply(0, "", "")

\* A quote_exact_in call: its arguments, where it is ("request": awaiting the
\* reply; "sleep": in the back-off sleep; "done"), the requests it has sent,
\* the replies after which it sent a further request, its last reply, whether
\* that reply's block_pair left a later deadline in place, what the call
\* returned, the skip code it emitted, and whether it returned at the
\* negative-cache check after _maybe_cleanup ran the cleanup.
JCall(in, cleaned, pc, requests) ==
    [input_mint |-> in.input_mint, output_mint |-> in.output_mint,
     amount_raw |-> in.amount_raw, cleaned |-> cleaned, pc |-> pc, requests |-> requests,
     resent_after |-> {}, last |-> NoReply, kept |-> FALSE, result |-> "none", skip |-> ""]

NoCall == [pc |-> "none"]

nonJupVars == <<engineVars, quarVars, wsVars, extraVars>>

\* quote_exact_in lines 279-307, up to the first request.  do_cleanup is the
\* draw of _maybe_cleanup (random.random() < 0.02).
QuoteCall(in, do_cleanup) ==
    IF in.input_mint = "" \/ in.output_mint = "" \/ in.amount_raw <= 0
    THEN /\ jret' = JCall(in, FALSE, "done", 0)
         /\ UNCHANGED <<jNow, token_until, pair_until, jcall, jcfg, nonJupVars>>
    ELSE /\ token_until' = IF do_cleanup THEN cleanup(token_until, jNow, MaxTokenItems)
                                         ELSE token_until
         /\ pair_until' = IF do_cleanup THEN cleanup(pair_until, jNow, MaxPairItems)
                                        ELSE pair_until
         /\ IF is_blocked(token_until', pair_until', in.input_mint, in.output_mint, jNow)
            THEN /\ jret' = JCall(in, do_cleanup, "done", 0)
                 /\ jcall' = jcall
            ELSE /\ BagCardinality(jcall) < MaxInFlight
                 /\ jret' = NoCall
                 /\ jcall' = jcall (+) SetToBag({JCall(in, FALSE, "request", 1)})
         /\ UNCHANGED <<jNow, jcfg, nonJupVars>>

\* A reply handler that emits the skip for every recognised error code.
Replied_skip_all(call, r, attempts, kept) ==
    IF r.status = 200 /\ r.what = "quote"
    THEN [call EXCEPT !.pc = "done", !.last = r, !.result = "quote"]
    ELSE IF r.status = 429 \/ r.status >= 500
    THEN [call EXCEPT !.pc = "sleep", !.last = r]
    ELSE IF r.what \in {"net", "body_net"} /\ call.requests < attempts
    THEN [call EXCEPT !.pc = "sleep", !.last = r]
    ELSE [call EXCEPT !.pc = "done", !.last = r, !.kept = kept,
                      !.skip = IF r.status = 400 /\ r.what # "other" THEN r.what ELSE ""]

\* The call record after reply r (lines 308-392).
Replied(call, r, attempts, kept) ==
    IF r.status = 200 /\ r.what = "quote"
    THEN [call EXCEPT !.pc = "done", !.last = r, !.result = "quote"]
    ELSE IF r.status = 429 \/ r.status >= 500
    THEN [call EXCEPT !.pc = "sleep", !.last = r]
    ELSE IF r.what \in {"net", "body_net"} /\ call.requests < attempts
    THEN [call EXCEPT !.pc = "sleep", !.last = r]
    ELSE [call EXCEPT !.pc = "done", !.last = r, !.kept = kept,
                      !.skip = IF r.what \in {"TOKEN_NOT_TRADABLE", "COULD_NOT_FIND_ANY_ROUTE"}
                               THEN r.what ELSE ""]

\* bad = mint or output_mint (line 346)
BadMint(call, r) == IF r.mint # "" THEN r.mint ELSE call.output_mint

\* A call moves on: it leaves the calls in progress when it returns.
MoveOn(call, next) ==
    IF next.pc = "done"
    THEN /\ jcall' = jcall (-) SetToBag({call})
         /\ jret' = next
    ELSE /\ jcall' = (jcall (-) SetToBag({call})) (+) SetToBag({next})
         /\ jret' = NoCall

\* The request of a call in progress ends with reply r.
QuoteReply(r) ==
    \E call \in BagToSet(jcall) :
        /\ call.pc = "request"
        /\ token_until' =
              IF r.what = "TOKEN_NOT_TRADABLE"
              THEN block_token(token_until, BadMint(call, r), jcfg.ttl_not_tradable, jNow)
              ELSE token_until
        /\ pair_until' =
              IF r.status # 400 \/ r.what = "other" THEN pair_until
              ELSE block_pair(pair_until, call.input_mint, call.output_mint,
                              IF r.what = "TOKEN_NOT_TRADABLE" THEN NOT_TRADABLE_PAIR_TTL
                              ELSE IF r.what = "COULD_NOT_FIND_ANY_ROUTE" THEN jcfg.ttl_no_route
                              ELSE jcfg.ttl_amount_too_big,
                              jNow)
        /\ MoveOn(call, Replied(call, r, max_attempts(jcfg),
                                /\ r.status = 400 /\ r.what # "other"
                                /\ pair_until' = pair_until
                                /\ Until(pair_until, <<call.input_mint, call.output_mint>>) > jNow))
        /\ UNCHANGED <<jNow, jcfg, nonJupVars>>

\* The back-off sleep of a call ends (lines 332-333, 386-387, 304, 394): the
\* loop sends the next request, or is over and the call returns none.
QuoteRetry ==
    \E call \in BagToSet(jcall) :
        /\ call.pc = "sleep"
        /\ MoveOn(call, IF call.requests < max_attempts(jcfg)
                        THEN [call EXCEPT !.pc = "request", !.requests = @ + 1,
                                          !.resent_after = @ \cup {call.last}]
                        ELSE [call EXCEPT !.pc = "done"])
        /\ UNCHANGED <<jNow, token_until, pair_until, jcfg, nonJupVars>>

\* Time passes.
JupTick ==
    /\ jNow < MaxJTicks * JupStep
    /\ jNow' = jNow + JupStep
    /\ jret' = NoCall
    /\ UNCHANGED <<token_until, pair_until, jcall, jcfg, nonJupVars>>

\* The client after construction, for a configured max_retries.
JupStart(max_retries) ==
    /\ jNow = 0
    /\ token_until = <<>>
    /\ pair_until = <<>>
    /\ jcall = EmptyBag
    /\ jret = NoCall
    /\ jcfg = JupArgs(max_retries)

\* core/config.py line 87
jupiter_max_retries == 4

InitJup == JupStart(jupiter_max_retries)

NextJup ==
    \/ \E in \in JInputs, do_cleanup \in BOOLEAN : QuoteCall(in, do_cleanup)
    \/ \E r \in Replies : QuoteReply(r)
    \/ QuoteRetry
    \/ JupTick


InitWS ==
    /\ wclients = <<>> /\ wsymbols = <<>> /\ wupdates = 0

(***************************************************************************)
(* The rate limiter of the quote client (connectors/jupiter.py,            *)
(* RateLimiter) and the request loop of quote_exact_in as the limiter      *)
(* sees it.  rps is kept in halves (rps2 = 2 * rps), the bucket in         *)
(* quarters of a token (tokens4 = 4 * _tokens) and the time since _last    *)
(* in half seconds, so that elapsed * rps is a whole number of quarters.   *)
(* A bucket is full after one second, so lElapsed stops at two.            *)
(***************************************************************************)
MaxLimCalls == 2
MaxLimAttempts == 2
MaxElapsed == 2
RpsTried == {0, 1, 2, 3}
ConcurrencyTried == {1, 2}

Min2(a, b) == IF a < b THEN a ELSE b

\* RateLimiter.__init__: _rps = max(0, rps), Semaphore(max(1, concurrency)),
\* _tokens = _rps.
RateLimiter(rps2, concurrency) ==
    [rps2 |-> IF rps2 > 0 THEN rps2 ELSE 0,
     permits |-> IF concurrency > 1 THEN concurrency ELSE 1,
     sem |-> IF concurrency > 1 THEN concurrency ELSE 1,
     waiters |-> <<>>,
     tokens4 |-> IF rps2 > 0 THEN 2 * rps2 ELSE 0]

\* The bucket after the refill of _wait_token:
\* min(_rps, _tokens + elapsed * _rps).
refill(l, elapsed) == Min2(2 * l.rps2, l.tokens4 + elapsed * l.rps2)

nonLimVars == <<engineVars, jupVars, quarVars, wsVars, recVars, runVars, pauseVars, bookVars, vwapVars, saveVars, mapVars, connVars, moreVars>>

LimCallIds == 1..MaxLimCalls

\* Where a call goes once it holds a permit: to the bucket when rps > 0,
\* to the HTTP request otherwise.
AfterPermit(l) == IF l.rps2 > 0 THEN "token" ELSE "http"

\* asyncio.Semaphore.release: the permit goes back and the first waiter,
\* if any, takes it.
sem_release(l, calls) ==
    IF l.waiters = <<>>
    THEN [l |-> [l EXCEPT !.sem = @ + 1], calls |-> calls]
    ELSE [l |-> [l EXCEPT !.waiters = Tail(@)],
          calls |-> [calls EXCEPT ![Head(l.waiters)].pc = AfterPermit(l)]]

\* quote_exact_in reaches `async with self._rate_limiter` (first attempt or
\* a retry): __aenter__ takes a permit at once when one is free and nobody
\* waits, and queues otherwise.
LimEnter(c) ==
    /\ lcall[c].pc \in {"idle", "retry"}
    /\ IF lim.sem > 0 /\ lim.waiters = <<>>
       THEN /\ lim' = [lim EXCEPT !.sem = @ - 1]
            /\ lcall' = [lcall EXCEPT ![c].pc = AfterPermit(lim),
                                      ![c].attempt = @ + 1]
       ELSE /\ lim' = [lim EXCEPT !.waiters = Append(@, c)]
            /\ lcall' = [lcall EXCEPT ![c].pc = "sem_wait", ![c].attempt = @ + 1]
    /\ UNCHANGED <<lElapsed, nonLimVars>>

\* One round of _wait_token: refill, then take a token or sleep 10 ms and
\* come back.
WaitToken(c) ==
    /\ lcall[c].pc = "token"
    /\ IF refill(lim, lElapsed) >= 4
       THEN /\ lim' = [lim EXCEPT !.tokens4 = refill(lim, lElapsed) - 4]
            /\ lcall' = [lcall EXCEPT ![c].pc = "http"]
       ELSE /\ lim' = [lim EXCEPT !.tokens4 = refill(lim, lElapsed)]
            /\ lcall' = lcall
    /\ lElapsed' = 0
    /\ UNCHANGED nonLimVars

\* The request ends (response, exception or timeout): __aexit__ releases the
\* permit; the call returns or goes round the retry loop.
HttpEnd(c, again) ==
    /\ lcall[c].pc = "http"
    /\ again => lcall[c].attempt < MaxLimAttempts
    /\ lim' = sem_release(lim, lcall).l
    /\ lcall' = [sem_release(lim, lcall).calls EXCEPT
                    ![c].pc = IF again THEN "retry" ELSE "done"]
    /\ UNCHANGED <<lElapsed, nonLimVars>>

\* The task running the call is cancelled.  While it waits for a permit it
\* leaves the queue; inside _wait_token it is still inside __aenter__, so
\* __aexit__ does not run; during the request __aexit__ runs.
LimCancel(c) ==
    /\ lcall[c].pc \in {"sem_wait", "token", "http", "retry"}
    /\ CASE lcall[c].pc = "sem_wait" ->
              /\ lim' = [lim EXCEPT !.waiters = SelectSeq(@, LAMBDA w : w # c)]
              /\ lcall' = [lcall EXCEPT ![c].pc = "cancelled"]
         [] lcall[c].pc = "http" ->
              /\ lim' = sem_release(lim, lcall).l
              /\ lcall' = [sem_release(lim, lcall).calls EXCEPT ![c].pc = "cancelled"]
         [] OTHER ->
              /\ lim' = lim
              /\ lcall' = [lcall EXCEPT ![c].pc = "cancelled"]
    /\ UNCHANGED <<lElapsed, nonLimVars>>

\* Half a second passes.
LimTick ==
    /\ lElapsed < MaxElapsed
    /\ lElapsed' = lElapsed + 1
    /\ UNCHANGED <<lim, lcall, nonLimVars>>

LimStart(rps2, concurrency) ==
    /\ lim = RateLimiter(rps2, concurrency)
    /\ lElapsed = 0
    /\ lcall = [c \in LimCallIds |-> [pc |-> "idle", attempt |-> 0]]

InitLim == LimStart(10, 4)

LimSteps ==
    \/ \E c \in LimCallIds : LimEnter(c)
    \/ \E c \in LimCallIds : WaitToken(c)
    \/ \E c \in LimCallIds : \E again \in BOOLEAN : HttpEnd(c, again)
    \/ LimTick

NextLim ==
    \/ LimSteps
    \/ \E c \in LimCallIds : LimCancel(c)


(***************************************************************************)
(* The quarantine file with entry reasons, load_initial's BAD_TOKEN_CFG    *)
(* validation, add(), sync_loop and the verifier                           *)
(* (core/quarantine_manager.py, core/quarantine.py,                        *)
(* core/quarantine_verifier.py).  Here add() and a sync_loop iteration     *)
(* with its callback are single steps; verify_and_recover is interleaved   *)
(* with them at its awaits.                                                *)
(***************************************************************************)
MaxRecAdds == 2
MaxRecTicks == 3
MaxVerifyRuns == 2
MaxFaults == 1
RecStep == 43200
RecEpoch == 100000

\* quarantine_manager.py line 80, app/tasks.py line 168,
\* quarantine_verifier.py line 25 (15 in the source, scaled down).
BAD_TOKEN_CFG_TTL_SEC == 86400
AUTO_Q_TTL_SEC == 21600
MAX_JUP_CHECKS_PER_RUN == 1

\* full_symbols and full_tokens of this configuration: two well-formed
\* tokens and one without a mint.
rec_symbols == <<"B1USDT", "G1USDT", "G2USDT">>
rec_tokens ==
    [B1 |-> [bybit_symbol |-> "B1USDT", mint |-> "", decimals |-> 6],
     G1 |-> [bybit_symbol |-> "G1USDT", mint |-> "M1", decimals |-> 6],
     G2 |-> [bybit_symbol |-> "G2USDT", mint |-> "M2", decimals |-> 6]]
RecSyms == { rec_symbols[i] : i \in DOMAIN rec_symbols }

NoEntry == [reason |-> "", until |-> 0]
NoEntries == [sym \in RecSyms |-> NoEntry]

\* The (reason, ttl) pairs add() is called with: the sanitizer's two and the
\* WS health task's.
AddReasons ==
    { [reason |-> "JUP_TOKEN_NOT_TRADABLE", ttl |-> JUP_NOT_TRADABLE_TTL_SEC],
      [reason |-> "WS_STALE", ttl |-> AUTO_Q_TTL_SEC] }

\* load_quarantine: the entries of the file; {} when the file cannot be read
\* or parsed (the exceptions are swallowed).
load_quarantine(f, fault) == IF fault THEN NoEntries ELSE f.ent

rec_prune(ent, ts) == [sym \in DOMAIN ent |-> IF ent[sym].until > ts THEN ent[sym] ELSE NoEntry]
rec_keys(ent) == { sym \in DOMAIN ent : ent[sym].until # 0 }
rec_save(f, ent) == [ent |-> ent, mtime |-> f.mtime + 1]

\* _apply_quarantine_to_cfg and _rebuild_token_cfgs_inplace
rec_apply(qs) ==
    [symbols |-> SelectSeq(rec_symbols, LAMBDA sym : sym \notin qs),
     tokens  |-> { k \in DOMAIN rec_tokens : rec_tokens[k].bybit_symbol \notin qs },
     denylist_symbols |-> base_denylist \cup qs]
rec_token_cfgs(c) == [k \in c.tokens |-> rec_tokens[k]]

\* load_initial, lines 72-76: a token is well-formed when it has a mint,
\* decimals and a symbol.
token_ok(t) == t.mint # "" /\ t.bybit_symbol # ""

\* load_initial, lines 68-91: the pruned file plus a BAD_TOKEN_CFG entry for
\* every malformed token whose symbol has no entry.
initial_entries(f, now) ==
    [sym \in RecSyms |->
        IF /\ rec_prune(f.ent, now)[sym].until = 0
           /\ \E k \in DOMAIN rec_tokens :
                 rec_tokens[k].bybit_symbol = sym /\ ~token_ok(rec_tokens[k])
        THEN [reason |-> "BAD_TOKEN_CFG", until |-> now + BAD_TOKEN_CFG_TTL_SEC]
        ELSE rec_prune(f.ent, now)[sym]]

nonRecVars == <<engineVars, jupVars, quarVars, wsVars, limVars, runVars, pauseVars, bookVars, vwapVars, saveVars, mapVars, connVars, moreVars>>

\* The in-memory update made under _lock for a new quarantined set.
RecApply(qs) ==
    /\ rset' = qs
    /\ rcfg' = rec_apply(qs)
    /\ rtok' = rec_token_cfgs(rec_apply(qs))

\* verify_and_recover, lines 49-55 and 64-70: the symbol's token has a mint
\* and 1..18 decimals.
has_info(sym) ==
    \E k \in DOMAIN rec_tokens :
        /\ rec_tokens[k].bybit_symbol = sym /\ rec_tokens[k].mint # ""
        /\ rec_tokens[k].decimals > 0 /\ rec_tokens[k].decimals <= 18

\* add(), line 121: the file holds an entry for the symbol that outlasts
\* now + 1800.
keeps_longer(ent, sym, now) == rec_prune(ent, now)[sym].until > now + KEEP_LONGER_SEC

\* add(symbol, reason, ttl_sec), lines 104-136.  Its callers pass the symbol
\* of a token that has a mint (the sanitizer) or an active symbol (the WS
\* health task).
RecAdd(sym, a) ==
    /\ radds < MaxRecAdds
    /\ has_info(sym) \/ \E i \in DOMAIN rcfg.symbols : rcfg.symbols[i] = sym
    /\ radds' = radds + 1
    /\ IF (rNow - rlast[sym]) < ADD_GUARD_SEC
       THEN UNCHANGED <<rfile, rset, rcfg, rtok, rlast>>
       ELSE /\ rlast' = [rlast EXCEPT ![sym] = rNow]
            /\ rfile' = IF keeps_longer(rfile.ent, sym, rNow)
                        THEN rfile
                        ELSE rec_save(rfile, [rec_prune(rfile.ent, rNow) EXCEPT
                                         ![sym] = [reason |-> a.reason, until |-> rNow + a.ttl]])
            /\ RecApply(rset \cup {sym})
    /\ UNCHANGED <<rNow, rsync, rver, nonRecVars>>

\* One iteration of sync_loop, lines 151-193, its callback included.  fault:
\* the file cannot be read or parsed in this iteration.
RecSync(fault) ==
    /\ fault => rsync.faults < MaxFaults
    /\ rfile.mtime > rsync.last_mtime
    /\ rfile' = IF rec_keys(rec_prune(load_quarantine(rfile, fault), rNow))
                      # rec_keys(load_quarantine(rfile, fault))
                THEN rec_save(rfile, rec_prune(load_quarantine(rfile, fault), rNow))
                ELSE rfile
    /\ IF rec_keys(rec_prune(load_quarantine(rfile, fault), rNow)) # rset
       THEN /\ RecApply(rec_keys(rec_prune(load_quarantine(rfile, fault), rNow)))
            /\ rsync' = [last_mtime |-> rfile.mtime,
                         faults |-> rsync.faults + (IF fault THEN 1 ELSE 0),
                         cb |-> ~rsync.cb]
       ELSE /\ UNCHANGED <<rset, rcfg, rtok>>
            /\ rsync' = [rsync EXCEPT !.last_mtime = rfile.mtime,
                                      !.faults = @ + (IF fault THEN 1 ELSE 0)]
    /\ UNCHANGED <<rNow, rlast, rver, radds, nonRecVars>>

\* Time passes, RecStep seconds at a time.  sync_loop polls every 10 s, so
\* a changed file has been looked at before the clock moves this far.
RecTick ==
    /\ rNow < RecEpoch + (MaxRecTicks * RecStep)
    /\ rfile.mtime <= rsync.last_mtime
    /\ rNow' = rNow + RecStep
    /\ UNCHANGED <<rfile, rset, rcfg, rtok, rlast, rsync, rver, radds, nonRecVars>>


\* verify_and_recover, line 63: the symbol is probed when its reason is one
\* of the two Jupiter reasons, the run has probes left and its token is known.
is_probed(q, sym, checks) ==
    /\ q[sym].reason \in {"JUP_TOKEN_NOT_TRADABLE", "JUP_NO_ROUTE"}
    /\ checks < MAX_JUP_CHECKS_PER_RUN
    /\ has_info(sym)

\* The entries the loop passes without an await.
RECURSIVE skip_unprobed(_, _, _)
skip_unprobed(todo, q, checks) ==
    IF todo = <<>> \/ is_probed(q, Head(todo), checks)
    THEN todo
    ELSE skip_unprobed(Tail(todo), q, checks)

\* Line 77: the probe's answer recovers the symbol.  quote: -1 for none,
\* otherwise out_amount_raw.
probe_ok_inverted(quote) == quote <= 0

probe_ok(quote) == quote > 0

ProbeAnswers == {-1, 0, 5}

VerifyIdle(runs) ==
    [pc |-> "idle", q |-> NoEntries, todo |-> <<>>, recovered |-> {}, checks |-> 0,
     ok |-> {}, runs |-> runs]

\* verify_and_recover starts: it reads the file under _file_lock (lines
\* 42-47) and returns at once when nothing is quarantined.
RecVerifyStart ==
    /\ rver.pc = "idle"
    /\ rver.runs < MaxVerifyRuns
    /\ rver' = IF rec_keys(rec_prune(rfile.ent, rNow)) = {}
               THEN VerifyIdle(rver.runs + 1)
               ELSE [VerifyIdle(rver.runs + 1) EXCEPT
                        !.pc = "loop",
                        !.q = rec_prune(rfile.ent, rNow),
                        !.todo = SelectSeq(rec_symbols,
                                    LAMBDA sym : rec_prune(rfile.ent, rNow)[sym].until # 0)]
    /\ UNCHANGED <<rNow, rfile, rset, rcfg, rtok, rlast, rsync, radds, nonRecVars>>

\* QuarantineManager.remove_recovered(symbols, on_symbols_changed): the
\* symbols leave the file and the set, the tables are rebuilt and the
\* callback is invoked.
remove_recovered(syms) ==
    /\ rfile' = rec_save(rfile, [sym \in RecSyms |->
                    IF sym \in syms THEN NoEntry ELSE rec_prune(rfile.ent, rNow)[sym]])
    /\ RecApply(rset \ syms)
    /\ rsync' = [rsync EXCEPT !.cb = ~@]

\* The loop of verify_and_recover up to its next await: the next probe
\* (lines 60-72), or the end of the run (lines 84-93).
RecVerifyNext ==
    /\ rver.pc = "loop"
    /\ IF skip_unprobed(rver.todo, rver.q, rver.checks) # <<>>
       THEN /\ rver' = [rver EXCEPT !.pc = "probe",
                                    !.todo = skip_unprobed(rver.todo, rver.q, rver.checks)]
            /\ UNCHANGED <<rfile, rset, rcfg, rtok, rsync>>
       ELSE /\ rver' = [rver EXCEPT !.pc = "idle", !.todo = <<>>]
            /\ IF rver.recovered = {}
               THEN UNCHANGED <<rfile, rset, rcfg, rtok, rsync>>
               ELSE remove_recovered(rver.recovered)
    /\ UNCHANGED <<rNow, rlast, radds, nonRecVars>>

\* The probe's quote_exact_in returns (lines 72-79): the answer is judged;
\* the 2 s sleep before the next entry follows.
RecProbeReply(quote) ==
    /\ rver.pc = "probe"
    /\ rver' = [rver EXCEPT
                  !.pc = "loop",
                  !.todo = Tail(@),
                  !.checks = @ + 1,
                  !.ok = IF quote > 0 THEN @ \cup {Head(rver.todo)} ELSE @,
                  !.recovered = IF probe_ok(quote) THEN @ \cup {Head(rver.todo)} ELSE @]
    /\ UNCHANGED <<rNow, rfile, rset, rcfg, rtok, rlast, rsync, radds, nonRecVars>>

NoRecFile == [ent |-> NoEntries, mtime |-> 0]

\* The state after load_initial (lines 66-95) with no quarantine file.
InitRec ==
    /\ rNow = RecEpoch
    /\ rfile = IF initial_entries(NoRecFile, rNow) # rec_prune(NoRecFile.ent, rNow)
               THEN rec_save(NoRecFile, initial_entries(NoRecFile, rNow))
               ELSE NoRecFile
    /\ rset = rec_keys(initial_entries(NoRecFile, rNow))
    /\ rcfg = rec_apply(rset)
    /\ rtok = rec_token_cfgs(rcfg)
    /\ rlast = [sym \in RecSyms |-> 0]
    /\ rsync = [last_mtime |-> 0, faults |-> 0, cb |-> FALSE]
    /\ rver = VerifyIdle(0)
    /\ radds = 0

RecSteps ==
    \/ \E sym \in RecSyms : \E a \in AddReasons : RecAdd(sym, a)
    \/ RecTick
    \/ RecVerifyStart
    \/ RecVerifyNext
    \/ \E quote \in ProbeAnswers : RecProbeReply(quote)

NextRec == RecSteps \/ RecSync(FALSE)

NextRecFault == RecSteps \/ \E fault \in BOOLEAN : RecSync(fault)


(***************************************************************************)
(* The tick loop of the engine (core/arb/engine.py, ArbEngine.run and      *)
(* _run_one_bounded) with what can go wrong inside _run_one_token.         *)
(***************************************************************************)
MaxRunTicks == 2

\* engine.py lines 111 and 113 (64 and 4 in the source, scaled down).
engine_concurrency == 1
engine_batch_mult == 2

\* list(self.token_cfgs.items())
run_items == <<"T1", "T2", "T3">>
RunTokens == { run_items[i] : i \in DOMAIN run_items }

\* What happens inside one _run_one_token: nothing, an exception from the
\* quote client, one from the signal sink, or one raised by the except
\* handler itself.
RunOutcomes == {"ok", "quote_raises", "sink_raises", "handler_raises"}

\* run(), line 458
batch_size ==
    IF engine_concurrency * engine_batch_mult > 1 THEN engine_concurrency * engine_batch_mult ELSE 1

\* The tokens of the k-th chunk, items[i : i + batch_size].
run_chunk(k) ==
    { run_items[i] : i \in { j \in DOMAIN run_items :
                               j > (k - 1) * batch_size /\ j <= k * batch_size } }

\* _run_one_token, lines 187 and 443-445: `except Exception` catches what the
\* body raises; an exception raised inside the handler leaves the coroutine.
escapes(outcome) == outcome = "handler_raises"

\* run(), line 466: gather(*tasks, return_exceptions=True) hands exceptions
\* back as results and does not raise.
gather_raises_any(states) == \E t \in DOMAIN states : states[t] = "raised"

gather_raises(states) == FALSE

nonRunVars == <<engineVars, jupVars, quarVars, wsVars, limVars, recVars, pauseVars, bookVars, vwapVars, saveVars, mapVars, connVars, moreVars>>

\* The tasks run() creates for a chunk (lines 461-465).
create_tasks(k) == [t \in RunTokens |-> IF t \in run_chunk(k) THEN "created" ELSE "none"]

\* A tick starts (lines 453-465): not while the exchange switch is off.
RunTickStart ==
    /\ nrun.pc = "sleep"
    /\ xev
    /\ nrun.ticks < MaxRunTicks
    /\ nrun' = [nrun EXCEPT !.pc = "gather", !.chunk = 1]
    /\ ntask' = create_tasks(1)
    /\ nseen' = {}
    /\ UNCHANGED <<nsem, nonRunVars>>

\* _run_one_bounded takes a permit and enters _run_one_token (lines 447-449).
RunTaskEnter(t) ==
    /\ ntask[t] = "created"
    /\ nsem > 0
    /\ nsem' = nsem - 1
    /\ ntask' = [ntask EXCEPT ![t] = "running"]
    /\ nseen' = nseen \cup {t}
    /\ UNCHANGED <<nrun, nonRunVars>>

\* _run_one_token ends; the permit goes back.
RunTaskEnd(t, outcome) ==
    /\ ntask[t] = "running"
    /\ nsem' = nsem + 1
    /\ ntask' = [ntask EXCEPT ![t] = IF escapes(outcome) THEN "raised" ELSE "returned"]
    /\ nrun' = [nrun EXCEPT !.raised = @ \cup ({outcome} \ {"ok"})]
    /\ UNCHANGED <<nseen, nonRunVars>>

\* gather returns (lines 466-470): the next chunk, or the end of the tick.
RunGatherReturn ==
    /\ nrun.pc = "gather"
    /\ \A t \in run_chunk(nrun.chunk) : ntask[t] \in {"returned", "raised"}
    /\ IF gather_raises(ntask)
       THEN /\ nrun' = [nrun EXCEPT !.pc = "crashed"]
            /\ UNCHANGED ntask
       ELSE IF nrun.chunk * batch_size < Len(run_items)
       THEN /\ nrun' = [nrun EXCEPT !.chunk = @ + 1]
            /\ ntask' = create_tasks(nrun.chunk + 1)
       ELSE /\ nrun' = [nrun EXCEPT !.pc = "sleep", !.ticks = @ + 1]
            /\ UNCHANGED ntask
    /\ UNCHANGED <<nsem, nseen, nonRunVars>>

InitRun ==
    /\ nrun = [pc |-> "sleep", chunk |-> 0, ticks |-> 0, raised |-> {}]
    /\ ntask = [t \in RunTokens |-> "none"]
    /\ nsem = engine_concurrency
    /\ nseen = {}

NextRun ==
    \/ RunTickStart
    \/ \E t \in RunTokens : RunTaskEnter(t)
    \/ \E t \in RunTokens : \E outcome \in RunOutcomes : RunTaskEnd(t, outcome)
    \/ RunGatherReturn


(***************************************************************************)
(* The exchange switch (app/handlers.py, on_exchange_toggle) and the loop  *)
(* of the quote poller (core/arb/poller.py, QuotePoller.run).              *)
(***************************************************************************)
MaxPollPasses == 2

\* poller.py lines 39 and 40 (24 and 4 in the source, scaled down).
poll_concurrency == 1
poll_batch_mult == 2

\* run(), line 169
poll_batch_size ==
    IF poll_concurrency * poll_batch_mult > 1 THEN poll_concurrency * poll_batch_mult ELSE 1

\* The tokens of the k-th chunk, items[i : i + batch_size] (line 172).
poll_chunk(k) ==
    { run_items[i] : i \in { j \in DOMAIN run_items :
                               j > (k - 1) * poll_batch_size /\ j <= k * poll_batch_size } }

poll_tasks(k) == [t \in RunTokens |-> IF t \in poll_chunk(k) THEN "created" ELSE "none"]

nonPauseVars == <<engineVars, jupVars, quarVars, wsVars, limVars, recVars, bookVars, vwapVars, saveVars, mapVars, connVars, moreVars>>

\* on_exchange_toggle (handlers.py lines 102-112): the event follows the
\* setting in the same step.
on_exchange_toggle(enabled) ==
    /\ xev' = enabled
    /\ UNCHANGED <<prun, ptask, psem, runVars, nonPauseVars>>

\* A pass of the poller starts (lines 162-173): not while the switch is off.
PollPassStart ==
    /\ prun.pc = "sleep"
    /\ xev
    /\ prun.passes < MaxPollPasses
    /\ prun' = [prun EXCEPT !.pc = "gather", !.chunk = 1]
    /\ ptask' = poll_tasks(1)
    /\ UNCHANGED <<xev, psem, runVars, nonPauseVars>>

\* runner (lines 155-160) takes a permit and _poll_one_token runs up to its
\* quote request (line 136), or returns before it (a skip, lines 106-131, or
\* the back-off of line 156).
PollTaskEnter(t, sends) ==
    /\ ptask[t] = "created"
    /\ IF sends
       THEN /\ psem > 0
            /\ psem' = psem - 1
            /\ ptask' = [ptask EXCEPT ![t] = "http"]
       ELSE /\ ptask' = [ptask EXCEPT ![t] = "returned"]
            /\ UNCHANGED psem
    /\ UNCHANGED <<xev, prun, runVars, nonPauseVars>>

\* The quote request ends (lines 138-150); the permit goes back.
PollTaskEnd(t) ==
    /\ ptask[t] = "http"
    /\ psem' = psem + 1
    /\ ptask' = [ptask EXCEPT ![t] = "returned"]
    /\ UNCHANGED <<xev, prun, runVars, nonPauseVars>>

\* gather returns (lines 174-181): the next chunk, or the end of the pass.
PollGatherReturn ==
    /\ prun.pc = "gather"
    /\ \A t \in poll_chunk(prun.chunk) : ptask[t] = "returned"
    /\ IF prun.chunk * poll_batch_size < Len(run_items)
       THEN /\ prun' = [prun EXCEPT !.chunk = @ + 1]
            /\ ptask' = poll_tasks(prun.chunk + 1)
       ELSE /\ prun' = [prun EXCEPT !.pc = "sleep", !.passes = @ + 1]
            /\ UNCHANGED ptask
    /\ UNCHANGED <<xev, psem, runVars, nonPauseVars>>

\* bootstrap.py lines 127-133, with exchange_enabled true in the settings.
InitPause ==
    /\ xev = TRUE
    /\ prun = [pc |-> "sleep", chunk |-> 0, passes |-> 0]
    /\ ptask = [t \in RunTokens |-> "none"]
    /\ psem = poll_concurrency

NextPause ==
    \/ NextRun
    \/ \E enabled \in BOOLEAN : on_exchange_toggle(enabled)
    \/ PollPassStart
    \/ \E t \in RunTokens : \E sends \in BOOLEAN : PollTaskEnter(t, sends)
    \/ \E t \in RunTokens : PollTaskEnd(t)
    \/ PollGatherReturn

(***************************************************************************)
(* The order book (core/orderbook.py): rows of strings as Bybit sends      *)
(* them, parsed and applied to the two price -> qty maps.                  *)
(***************************************************************************)
MaxBidRows == 2
MaxAskRows == 1
MaxBookTs == 2

\* Decimal(s) for the strings tried; any other string does not parse.
DecimalOf == [s \in {"-1", "0", "1", "2"} |->
                 CASE s = "-1" -> 0 - 1 [] s = "0" -> 0 [] s = "1" -> 1 [] s = "2" -> 2]

PriceStrings == {"1", "2", "x"}
QtyStrings == {"-1", "0", "2", "x"}
BookPrices == {1, 2}

\* The rows tried: [price, qty] and the malformed one-element row.
BookRows == { <<ps, qs>> : ps \in PriceStrings, qs \in QtyStrings } \cup { <<"1">> }

RowsUpTo(n) == UNION { [1..k -> BookRows] : k \in 0..n }

\* _safe_decimal (lines 12-17): None on invalid input.
safe_decimal(str) ==
    IF str \in DOMAIN DecimalOf THEN [some |-> TRUE, v |-> DecimalOf[str]]
                                ELSE [some |-> FALSE, v |-> 0]

NoLevel == [has |-> FALSE, qty |-> 0]
EmptySide == [pr \in BookPrices |-> NoLevel]

\* apply_snapshot._parse_side (lines 30-42), from the rows not yet read.
RECURSIVE parse_side(_, _)
parse_side(result, rows) ==
    IF rows = <<>> THEN result
    ELSE LET row == Head(rows) IN
         IF Len(row) < 2 THEN parse_side(result, Tail(rows))
         ELSE LET price == safe_decimal(row[1])
                  qty == safe_decimal(row[2])
              IN IF price.some /\ qty.some /\ qty.v > 0
                 THEN parse_side([result EXCEPT ![price.v] = [has |-> TRUE, qty |-> qty.v]],
                                 Tail(rows))
                 ELSE parse_side(result, Tail(rows))

\* The loop of apply_delta over one side (lines 51-63 and 65-77).
RECURSIVE delta_side(_, _)
delta_side(side, rows) ==
    IF rows = <<>> THEN side
    ELSE LET row == Head(rows) IN
         IF Len(row) < 2 THEN delta_side(side, Tail(rows))
         ELSE LET price == safe_decimal(row[1])
                  qty == safe_decimal(row[2])
              IN IF ~price.some \/ ~qty.some THEN delta_side(side, Tail(rows))
                 ELSE IF qty.v = 0
                 THEN delta_side([side EXCEPT ![price.v] = NoLevel], Tail(rows))
                 ELSE delta_side([side EXCEPT ![price.v] = [has |-> TRUE, qty |-> qty.v]],
                                 Tail(rows))

nonBookVars == <<engineVars, jupVars, quarVars, wsVars, limVars, recVars, runVars, pauseVars, vwapVars, saveVars, mapVars, connVars, moreVars>>

\* apply_snapshot (lines 29-48)
apply_snapshot(bids, asks, ts_ms) ==
    /\ obook' = [bids |-> parse_side(EmptySide, bids),
                asks |-> parse_side(EmptySide, asks),
                last_update_ms |-> ts_ms]
    /\ UNCHANGED nonBookVars

\* apply_delta (lines 50-80)
apply_delta(bids, asks, ts_ms) ==
    /\ obook' = [bids |-> delta_side(obook.bids, bids),
                asks |-> delta_side(obook.asks, asks),
                last_update_ms |-> ts_ms]
    /\ UNCHANGED nonBookVars

\* OrderBook(symbol), lines 22-27
InitBook == obook = [bids |-> EmptySide, asks |-> EmptySide, last_update_ms |-> 0]

NextBook ==
    \E bids \in RowsUpTo(MaxBidRows) : \E asks \in RowsUpTo(MaxAskRows) :
    \E ts_ms \in 1..MaxBookTs :
        \/ apply_snapshot(bids, asks, ts_ms)
        \/ apply_delta(bids, asks, ts_ms)

(***************************************************************************)
(* The VWAP simulators (core/vwap.py) applied to one list of levels and    *)
(* two amounts, under a Decimal context.                                   *)
(***************************************************************************)
\* Significant digits of the Decimal context (28 in Python's default
\* context, scaled down together with the inputs).
DecimalPrec == 3
MaxLevels == 2
MaxAmount == 5

LevelPrices == {1, 3, 7}
LevelQtys == {1, 2, 10}

\* Lists of levels with ascending prices, as asks_sorted() gives them.
AscendingLevels ==
    { lv \in UNION { [1..k -> LevelPrices \X LevelQtys] : k \in 1..MaxLevels } :
        \A i \in 1..(Len(lv) - 1) : lv[i][1] <= lv[i + 1][1] }

RatLevels(lv) == [i \in DOMAIN lv |-> <<RInt(lv[i][1]), RInt(lv[i][2])>>]

\* The same levels with descending prices, as bids_sorted() gives them.
Descending(lv) == [i \in DOMAIN lv |-> lv[Len(lv) + 1 - i]]

nonVwapVars == <<engineVars, jupVars, quarVars, wsVars, limVars, recVars, runVars,
                 pauseVars, bookVars, saveVars, mapVars, connVars,
                 moreVars>>

\* The rounding of a Decimal context of DecimalPrec digits.
Context(x) == DecRound(x, DecimalPrec)

\* simulate_buy_with_notional for both notionals over the same asks.
VwapBuy ==
    /\ vw.pc = "input"
    /\ vw' = [vw EXCEPT !.pc = "bought",
                        !.r1 = buy_with_notional(RatLevels(vw.levels), RInt(vw.x1), Context),
                        !.r2 = buy_with_notional(RatLevels(vw.levels), RInt(vw.x2), Context)]
    /\ UNCHANGED nonVwapVars

\* simulate_sell_base for both base amounts over the same bids.
VwapSell ==
    /\ vw.pc = "input"
    /\ vw' = [vw EXCEPT !.pc = "sold",
                        !.r1 = sell_base(RatLevels(Descending(vw.levels)), RInt(vw.x1), Context),
                        !.r2 = sell_base(RatLevels(Descending(vw.levels)), RInt(vw.x2), Context)]
    /\ UNCHANGED nonVwapVars

VwapStart(levels, x1, x2) ==
    vw = [pc |-> "input", levels |-> levels, x1 |-> x1, x2 |-> x2, r1 |-> NoSim, r2 |-> NoSim]

InitVwap == VwapStart(<< <<1, 1>> >>, 1, 1)

NextVwap == VwapBuy \/ VwapSell

(***************************************************************************)
(* Writing the quarantine file (core/quarantine.py, save_quarantine) as a  *)
(* reader in another process, or the bot after a crash, sees it.           *)
(***************************************************************************)
MaxSaves == 2
MaxCrashes == 1

save_symbols == <<"S1USDT", "S2USDT", "S3USDT">>
SaveSyms == { save_symbols[i] : i \in DOMAIN save_symbols }

\* The document save_quarantine dumps (lines 54-58), one line per key:
\* version, updated_at_ts, symbols, then the entries in sorted order.
payload(q) ==
    <<"version", "updated_at_ts", "symbols">> \o SelectSeq(save_symbols, LAMBDA sym : sym \in q)

\* The symbols whose entry a reader finds in the lines.
file_symbols(lines) == { lines[i] : i \in DOMAIN lines } \cap SaveSyms

nonSaveVars == <<engineVars, jupVars, quarVars, wsVars, limVars, recVars, runVars,
                 pauseVars, bookVars, vwapVars, mapVars, connVars,
                 moreVars>>

\* save_quarantine, line 59: open(path, "w") truncates the file in place.
\* The map is the one add() builds (quarantine_manager.py lines 118-129).
save_open(sym) ==
    /\ dsave.pc = "idle"
    /\ dsave.saves < MaxSaves
    /\ sym \notin file_symbols(dfile)
    /\ dsave' = [dsave EXCEPT !.pc = "dumping", !.prev = dfile,
                              !.new = payload(file_symbols(dfile) \cup {sym}),
                              !.saves = @ + 1]
    /\ dfile' = <<>>
    /\ UNCHANGED <<dseen, nonSaveVars>>

\* line 60: yaml.safe_dump streams the document into the open file.
save_dump ==
    /\ dsave.pc = "dumping"
    /\ Len(dfile) < Len(dsave.new)
    /\ dfile' = Append(dfile, dsave.new[Len(dfile) + 1])
    /\ UNCHANGED <<dsave, dseen, nonSaveVars>>

\* The with block ends: the file is closed.
save_close ==
    /\ dsave.pc = "dumping"
    /\ dfile = dsave.new
    /\ dsave' = [dsave EXCEPT !.pc = "idle", !.prev = dsave.new]
    /\ UNCHANGED <<dfile, dseen, nonSaveVars>>

\* Another process (tools/quarantine_refresh.py, line 135) reads the file.
read_other ==
    /\ dseen' = [some |-> TRUE, lines |-> dfile, prev |-> dsave.prev, new |-> dsave.new]
    /\ UNCHANGED <<dfile, dsave, nonSaveVars>>

\* The bot dies during the write and is started again: load_initial reads
\* what is on disk (quarantine_manager.py, load_quarantine at start-up).
crash_restart ==
    /\ dsave.pc = "dumping"
    /\ dsave.crashes < MaxCrashes
    /\ dseen' = [some |-> TRUE, lines |-> dfile, prev |-> dsave.prev, new |-> dsave.new]
    /\ dsave' = [dsave EXCEPT !.pc = "idle", !.prev = dfile, !.new = dfile,
                              !.crashes = @ + 1]
    /\ UNCHANGED <<dfile, nonSaveVars>>

InitSave ==
    /\ dfile = payload({})
    /\ dsave = [pc |-> "idle", prev |-> payload({}), new |-> payload({}), saves |-> 0,
                crashes |-> 0]
    /\ dseen = [some |-> FALSE, lines |-> <<>>, prev |-> <<>>, new |-> <<>>]

NextSave ==
    \/ \E sym \in SaveSyms : save_open(sym)
    \/ save_dump
    \/ save_close
    \/ read_other
    \/ crash_restart

(***************************************************************************)
(* The functions on quarantine maps (core/quarantine.py): prune_expired,  *)
(* and save_quarantine followed by load_quarantine.  A map is a function   *)
(* from its symbols to entries; a reason is the sequence of its            *)
(* characters.                                                             *)
(***************************************************************************)
MapUntils == {999, 1000, 1001}
MapTimes == {100, 1000}
MapSymbols == {"A", "B"}

\* The reasons tried: "", " ", "x", " x" and "x ".
MapReasons == {<<>>, <<" ">>, <<"x">>, <<" ", "x">>, <<"x", " ">>}

MapEntries == [reason : MapReasons, until_ts : MapUntils]
QuarantineMaps == UNION { [S -> MapEntries] : S \in SUBSET MapSymbols }

\* prune_expired (lines 63-65): a new dict with the entries still running.
prune_entries_inclusive(q, ts) ==
    [sym \in { s \in DOMAIN q : q[s].until_ts >= ts } |-> q[sym]]

prune_entries(q, ts) ==
    [sym \in { s \in DOMAIN q : q[s].until_ts > ts } |-> q[sym]]

\* str.strip()
RECURSIVE lstrip(_)
lstrip(str) == IF str # <<>> /\ Head(str) = " " THEN lstrip(Tail(str)) ELSE str

RECURSIVE rstrip(_)
rstrip(str) ==
    IF str # <<>> /\ str[Len(str)] = " " THEN rstrip(SubSeq(str, 1, Len(str) - 1)) ELSE str

strip(str) == lstrip(rstrip(str))

Unknown == <<"u", "n", "k", "n", "o", "w", "n">>

\* load_quarantine, line 42: str(v.get("reason") or "").strip() or "unknown"
loaded_reason_unknown(reason) == Unknown

loaded_reason(reason) == IF strip(reason) = <<>> THEN Unknown ELSE strip(reason)

\* save_quarantine (lines 54-58): the document written; yaml keeps strings
\* and integers as they are.
dump_document(q, now) ==
    [version |-> 1, updated_at_ts |-> now,
     symbols |-> [sym \in DOMAIN q |-> [reason |-> q[sym].reason, until |-> q[sym].until_ts]]]

\* load_quarantine (lines 34-50) on the parsed document raw.
load_document(raw) ==
    [sym \in DOMAIN raw.symbols |->
        [reason |-> loaded_reason(raw.symbols[sym].reason),
         until_ts |-> raw.symbols[sym].until]]

nonMapVars == <<engineVars, jupVars, quarVars, wsVars, limVars, recVars, runVars,
                pauseVars, bookVars, vwapVars, saveVars, connVars,
                 moreVars>>

\* result = prune_expired(q, ts); the comprehension leaves q alone.
PruneCall(ts) ==
    /\ kres.pc = "input"
    /\ kres' = [pc |-> "pruned", ts |-> ts, out |-> prune_entries(kq, ts)]
    /\ UNCHANGED <<kq, kq0, nonMapVars>>

\* save_quarantine(path, q); loaded = load_quarantine(path)
RoundTripCall(now) ==
    /\ kres.pc = "input"
    /\ kres' = [pc |-> "loaded", ts |-> now, out |-> load_document(dump_document(kq, now))]
    /\ UNCHANGED <<kq, kq0, nonMapVars>>

MapStart(q) ==
    /\ kq = q
    /\ kq0 = q
    /\ kres = [pc |-> "input", ts |-> 0, out |-> <<>>]

InitMap == MapStart(<<>>)

NextMap ==
    \/ \E ts \in MapTimes : PruneCall(ts)
    \/ \E now \in MapTimes : RoundTripCall(now)

-----------------------------------------------------------------------------
(* One BybitWS client (connectors/bybit_ws.py): run() with its backoff,    *)
(* _connect_and_run with its four tasks, and _send_with_ack with the       *)
(* pending-ack table.  A step is the code between two awaits.  The client  *)
(* wants topic "a" from the start; set_symbols adds topic "b".             *)

\* Bounds: calls of _connect_and_run, and connections that come up.
MaxTries == 7
MaxUps   == 2

\* _send_with_ack, line 213.
attempts == 3

\* run() lines 89 and 97: the first delay and the cap, in seconds.
BACKOFF_START == 1
BACKOFF_CAP   == 30

\* Who awaits an ack: the initial _apply_topic_delta of _connect_and_run, the
\* control task, and the control task of a connection that has ended when its
\* cancellation did not end it ("late").
Senders == {"initial", "control", "late"}

\* A sender: where it is in _send_with_ack, the attempt and the topics.  Its
\* future (fut) is "none" once the sender has left wait_for and popped it.
SendOff == [pc |-> "off", attempt |-> 0, topics |-> {}]
NoTasks == [reader |-> "none", ping |-> "none", control |-> "none", watcher |-> "none"]

\* BybitWS.__init__ (lines 47-64) and the first iteration of run().  direct
\* tells how Task.cancel() meets asyncio.wait_for: TRUE when it cancels the
\* awaited future itself (wait_for built on asyncio.timeout), FALSE when it
\* cancels wait_for's inner waiter and wait_for then returns the outcome of a
\* future that is done (the older wait_for).
NewConn(direct) ==
    [pc |-> "connecting", backoff |-> BACKOFF_START, delay |-> 0, fails |-> 0, tries |-> 1,
     ups |-> 0, ended |-> "none", ws |-> "none", reconnect |-> FALSE, cooling |-> FALSE,
     desired |-> {"a"}, changed |-> FALSE, subscribed |-> {}, task |-> NoTasks,
     send |-> [who \in Senders |-> SendOff], acks |-> {},
     fut |-> [who \in Senders |-> "none"], direct |-> direct]

\* request_reconnect, lines 108-113
request_reconnect(cl) ==
    IF cl.cooling THEN cl ELSE [cl EXCEPT !.cooling = TRUE, !.reconnect = TRUE]

\* The finally block of _connect_and_run, lines 156-158: what it does to one
\* future of the table.
leave_pending(state) == state

resolve(state) == IF state = "pending" THEN "exception" ELSE state

\* The control task is suspended in wait_for (line 225) when it is cancelled.
InWaitFor(cl) == cl.task.control = "run" /\ cl.send["control"].pc = "ack"

\* The finally block of _connect_and_run, lines 150-159: the four tasks are
\* cancelled, the futures of the table that are not done get an exception,
\* and the table is cleared.  A control task cancelled inside wait_for ends
\* with its future cancelled when the cancellation goes to the future; else
\* it goes on with the outcome of its future.
ConnTeardown(cl) ==
    LET goes_on == InWaitFor(cl) /\ ~cl.direct
        ctl_fut == IF InWaitFor(cl) /\ cl.direct /\ cl.fut["control"] = "pending"
                   THEN "cancelled"
                   ELSE IF "control" \in cl.acks THEN resolve(cl.fut["control"])
                   ELSE cl.fut["control"]
    IN  [cl EXCEPT
           !.ws = "none",
           !.task = NoTasks,
           !.acks = {},
           !.send = [who \in Senders |->
                        IF who = "late" THEN (IF goes_on THEN cl.send["control"] ELSE @[who])
                        ELSE SendOff],
           !.fut = [who \in Senders |->
                        IF who = "control" THEN (IF goes_on THEN "none" ELSE ctl_fut)
                        ELSE IF who = "late" THEN (IF goes_on THEN ctl_fut ELSE @[who])
                        ELSE IF who \in cl.acks THEN resolve(@[who])
                        ELSE @[who]]]

Min(a, b) == IF a < b THEN a ELSE b

\* _connect_and_run is over (lines 150-159), and run() goes on (lines 90-97):
\* after an exception it sleeps backoff seconds, after a normal return it sets
\* backoff to 1 and calls _connect_and_run again, which clears _reconnect.
EndConnection(cl, raised) ==
    IF raised
    THEN [ConnTeardown(cl) EXCEPT !.pc = "sleep", !.delay = cl.backoff, !.fails = @ + 1,
                              !.ended = "raised"]
    ELSE [ConnTeardown(cl) EXCEPT !.pc = "connecting", !.backoff = BACKOFF_START, !.fails = 0,
                              !.tries = @ + 1, !.ended = "returned", !.reconnect = FALSE]

\* _apply_topic_delta returns (lines 182, 199-205): the initial run leaves
\* _connect_and_run at asyncio.wait, a control task at _desired_changed.wait().
Finished(cl, who) ==
    [cl EXCEPT !.send[who] = [SendOff EXCEPT !.pc = IF who = "initial" THEN "done" ELSE "wait"]]

\* The exception of _send_with_ack's last attempt leaves the sender: in the
\* initial run it leaves _connect_and_run too; a task ends with it.
Raised(cl, who) ==
    IF who = "initial" THEN EndConnection(cl, TRUE)
    ELSE IF who = "control"
    THEN [cl EXCEPT !.send[who] = SendOff, !.task.control = "raised"]
    ELSE [cl EXCEPT !.send[who] = SendOff]

\* _send_with_ack lines 240-259: the entry is popped; before the last attempt
\* the sender sleeps and tries again, after it request_reconnect and raise.
AttemptFailed(cl, who) ==
    LET popped == [cl EXCEPT !.acks = @ \ {who}, !.fut[who] = "none"]
    IN  IF cl.send[who].attempt < attempts
        THEN [popped EXCEPT !.send[who].pc = "pause"]
        ELSE Raised(request_reconnect(popped), who)

\* The socket a sender writes to is open: the late task holds the socket of
\* the connection that has ended.
CanSend(cl, who) == who # "late" /\ cl.ws = "open"

\* _send_with_ack lines 214-225, attempt n: the future is created and entered
\* in the table, the request is sent and the sender awaits the future; a send
\* that raises is a failed attempt.
StartAttempt(cl, who, n, topics) ==
    LET entered == [cl EXCEPT !.send[who] = [pc |-> "ack", attempt |-> n, topics |-> topics],
                              !.acks = @ \cup {who},
                              !.fut[who] = "pending"]
    IN  IF CanSend(cl, who) THEN entered
        ELSE AttemptFailed([entered EXCEPT !.fut[who] = "none"], who)

\* _apply_topic_delta, lines 171-205, up to its first await: the topics to
\* subscribe are the desired ones not subscribed; none: it returns.
client_apply_topic_delta(cl, who) ==
    IF cl.desired \ cl.subscribed = {} THEN Finished(cl, who)
    ELSE StartAttempt(cl, who, 1, cl.desired \ cl.subscribed)

\* _send_with_ack got a positive ack (lines 228-235) and _apply_topic_delta
\* goes on (lines 198-205).
Completed(cl, who) ==
    Finished([cl EXCEPT !.acks = @ \ {who}, !.fut[who] = "none",
                        !.subscribed = @ \cup cl.send[who].topics], who)

nonConnVars == <<engineVars, jupVars, quarVars, wsVars, limVars, recVars, runVars,
                 pauseVars, bookVars, vwapVars, saveVars, mapVars, moreVars>>

\* websockets.connect returns (lines 119-137): the subscribed set is emptied,
\* the four tasks are created and the initial _apply_topic_delta starts.  A
\* late task has been resumed by then: it was made ready when it was cancelled.
ConnectOk ==
    /\ bclient.pc = "connecting"
    /\ bclient.ups < MaxUps
    /\ bclient.send["late"].pc # "ack"
    /\ bclient' = client_apply_topic_delta([bclient EXCEPT
                                  !.pc = "up", !.ups = @ + 1, !.ws = "open",
                                  !.subscribed = {},
                                  !.task = [reader |-> "run", ping |-> "run",
                                            control |-> "run", watcher |-> "run"],
                                  !.send["control"] = [SendOff EXCEPT !.pc = "wait"],
                                  !.fut["initial"] = "none", !.fut["control"] = "none"],
                              "initial")
    /\ UNCHANGED nonConnVars

\* websockets.connect raises: run() sleeps (lines 93-96).
ConnectFail ==
    /\ bclient.pc = "connecting"
    /\ bclient' = [bclient EXCEPT !.pc = "sleep", !.delay = bclient.backoff, !.fails = @ + 1,
                                  !.ended = "raised"]
    /\ UNCHANGED nonConnVars

\* asyncio.sleep(backoff) returns (lines 96-97, 90-92, 117): backoff doubles
\* up to the cap and _connect_and_run is called again.
SleepDone ==
    /\ bclient.pc = "sleep"
    /\ bclient.tries < MaxTries
    /\ bclient' = [bclient EXCEPT !.pc = "connecting", !.delay = 0,
                                  !.backoff = Min(bclient.backoff * 2, BACKOFF_CAP),
                                  !.tries = @ + 1, !.reconnect = FALSE]
    /\ UNCHANGED nonConnVars

\* _reader_loop lines 271-277: an ack with the req_id of a pending future.
AckArrives(who, success) ==
    /\ bclient.pc = "up"
    /\ bclient.ws = "open"
    /\ bclient.task.reader = "run"
    /\ who \in bclient.acks
    /\ bclient.fut[who] = "pending"
    /\ bclient' = [bclient EXCEPT !.fut[who] = IF success THEN "result" ELSE "neg"]
    /\ UNCHANGED nonConnVars

\* wait_for returns the outcome of the future (lines 225-259).
Resume(who) ==
    /\ bclient.send[who].pc = "ack"
    /\ bclient.fut[who] \in {"result", "neg", "exception"}
    /\ bclient' = IF bclient.fut[who] = "result" THEN Completed(bclient, who)
                  ELSE AttemptFailed(bclient, who)
    /\ UNCHANGED nonConnVars

\* wait_for times out (lines 225, 240-248): it cancels the future.
AckTimeout(who) ==
    /\ bclient.send[who].pc = "ack"
    /\ bclient.fut[who] = "pending"
    /\ bclient' = AttemptFailed([bclient EXCEPT !.fut[who] = "cancelled"], who)
    /\ UNCHANGED nonConnVars

\* The sleep between two attempts is over (lines 244-245, 256-257).
Retry(who) ==
    /\ bclient.send[who].pc = "pause"
    /\ bclient' = StartAttempt(bclient, who, bclient.send[who].attempt + 1,
                               bclient.send[who].topics)
    /\ UNCHANGED nonConnVars

\* set_symbols and its _set task (lines 68-86), called when the initial
\* subscription of a connection is through.
SetSymbols ==
    /\ "b" \notin bclient.desired
    /\ bclient.pc = "up"
    /\ bclient.send["initial"].pc = "done"
    /\ bclient' = [bclient EXCEPT !.desired = @ \cup {"b"}, !.changed = TRUE]
    /\ UNCHANGED nonConnVars

\* _control_loop lines 166-169.
ConnControlWake ==
    /\ bclient.pc = "up"
    /\ bclient.task.control = "run"
    /\ bclient.send["control"].pc = "wait"
    /\ bclient.changed
    /\ bclient' = client_apply_topic_delta([bclient EXCEPT !.changed = FALSE], "control")
    /\ UNCHANGED nonConnVars

\* The network drops the connection.
ConnLost ==
    /\ bclient.pc = "up"
    /\ bclient.ws = "open"
    /\ bclient' = [bclient EXCEPT !.ws = "lost"]
    /\ UNCHANGED nonConnVars

\* _reader_loop ends (line 262): the iteration over a closed socket stops, or
\* raises when the connection was lost with an error.
ReaderEnds(err) ==
    /\ bclient.pc = "up"
    /\ bclient.task.reader = "run"
    /\ bclient.ws \in {"lost", "closed"}
    /\ err => bclient.ws = "lost"
    /\ bclient' = [bclient EXCEPT !.task.reader = IF err THEN "raised" ELSE "ended"]
    /\ UNCHANGED nonConnVars

\* _reader_loop lines 279-283: a failed subscribe without a pending req_id.
ReaderRequestsReconnect ==
    /\ bclient.pc = "up"
    /\ bclient.ws = "open"
    /\ bclient.task.reader = "run"
    /\ bclient' = request_reconnect(bclient)
    /\ UNCHANGED nonConnVars

\* _ping_loop lines 300-307: the send raises and the loop returns.
PingFails ==
    /\ bclient.pc = "up"
    /\ bclient.task.ping = "run"
    /\ bclient.ws \in {"lost", "closed"}
    /\ bclient' = [bclient EXCEPT !.task.ping = "ended"]
    /\ UNCHANGED nonConnVars

\* _reconnect_watcher, lines 293-298.
ReconnectWatcher ==
    /\ bclient.pc = "up"
    /\ bclient.task.watcher = "run"
    /\ bclient.reconnect
    /\ bclient' = [bclient EXCEPT !.task.watcher = "ended",
                                  !.ws = IF @ = "open" THEN "closed" ELSE @]
    /\ UNCHANGED nonConnVars

TaskDone(cl) == \E t \in DOMAIN cl.task : cl.task[t] \in {"ended", "raised"}

\* asyncio.wait returns (lines 140-159): the exception of a task that is done
\* is raised, else _connect_and_run returns.
WaitReturns ==
    /\ bclient.pc = "up"
    /\ bclient.send["initial"].pc = "done"
    /\ TaskDone(bclient)
    /\ bclient.tries < MaxTries
    /\ bclient' = EndConnection(bclient, \E t \in DOMAIN bclient.task : bclient.task[t] = "raised")
    /\ UNCHANGED nonConnVars

\* The task of run() is cancelled (ws_cluster.py lines 45-50) while the
\* connection is up: the finally block runs and run() ends.  An initial run
\* inside wait_for has its future cancelled by wait_for.
RunCancelled ==
    /\ bclient.pc = "up"
    /\ bclient' = [ConnTeardown([bclient EXCEPT
                               !.fut["initial"] = IF @ = "pending" THEN "cancelled" ELSE @])
                      EXCEPT !.pc = "stopped", !.ended = "cancelled"]
    /\ UNCHANGED nonConnVars

\* _reconnect_cooldown_sec (line 62) has passed since _last_reconnect_ts; by
\* then the request has been served.
CooldownOver ==
    /\ bclient.cooling
    /\ ~bclient.reconnect
    /\ bclient' = [bclient EXCEPT !.cooling = FALSE]
    /\ UNCHANGED nonConnVars

InitConn == bclient = NewConn(FALSE)

NextConn ==
    \/ ConnectOk
    \/ ConnectFail
    \/ SleepDone
    \/ \E who \in {"initial", "control"}, success \in BOOLEAN : AckArrives(who, success)
    \/ \E who \in Senders : Resume(who)
    \/ \E who \in {"initial", "control"} : AckTimeout(who)
    \/ \E who \in Senders : Retry(who)
    \/ SetSymbols
    \/ ConnControlWake
    \/ ConnLost
    \/ \E err \in BOOLEAN : ReaderEnds(err)
    \/ ReaderRequestsReconnect
    \/ PingFails
    \/ ReconnectWatcher
    \/ WaitReturns
    \/ RunCancelled
    \/ CooldownOver

(***************************************************************************)
(* The Jupiter sanitizer (core/jupiter_sanitizer.py): the on_jup_skip      *)
(* callback built by make_on_jup_skip, for a stable mint, one mint with a  *)
(* symbol and one without.  san.recent is history: the                     *)
(* COULD_NOT_FIND_ANY_ROUTE events of each mint at the clock readings of   *)
(* the last JUP_BAD_WINDOW_SEC seconds, newest first.                      *)

\* Module constants (lines 10-15).
JUP_BAD_WINDOW_SEC          == 1200
JUP_NO_ROUTE_TTL_SEC        == 7200
JUP_NOT_TRADABLE_HITS       == 1
JUP_NO_ROUTE_HITS           == 30
JUP_MAX_QUARANTINES_PER_MIN == 10

\* Bounds: clock steps, and the events counted for one mint.
MaxSanTicks == 2
MaxSanHits  == 30

\* Seconds between two readings of time.time().
SanStep == 900

\* The clock readings that lie within JUP_BAD_WINDOW_SEC of the present one.
SanSlots == 1..(JUP_BAD_WINDOW_SEC \div SanStep + 1)

SanStable == "USDC"
SanMints  == {"M1", "MX"}

\* mint_to_symbol: MX has no symbol.
san_mint_to_symbol == [m \in {"M1"} |-> "B"]

SanCodes == {"TOKEN_NOT_TRADABLE", "COULD_NOT_FIND_ANY_ROUTE"}

\* Lines 42-47: the mint the event is about.
skip_mint(input_mint, output_mint, bad_mint) ==
    IF bad_mint # "" THEN bad_mint
    ELSE IF output_mint # "" /\ output_mint # SanStable THEN output_mint
    ELSE IF input_mint # "" /\ input_mint # SanStable THEN input_mint
    ELSE ""

\* Line 58: the counter restarts when the previous event is older than the window.
window_over(now, last) == now - last > JUP_BAD_WINDOW_SEC

\* allow_jup_quarantine (lines 31-39): the rate window after the call, and
\* whether the call allowed the quarantine.
qrate_after(qrate, now) ==
    LET q == IF now - qrate.ts > 60 THEN [ts |-> now, cnt |-> 0] ELSE qrate
    IN  IF q.cnt >= JUP_MAX_QUARANTINES_PER_MIN THEN q ELSE [q EXCEPT !.cnt = @ + 1]

allow_jup_quarantine(qrate, now) ==
    (IF now - qrate.ts > 60 THEN 0 ELSE qrate.cnt) < JUP_MAX_QUARANTINES_PER_MIN

NoAdd == [symbol |-> "", reason |-> "", ttl |-> 0]

nonSanVars == <<engineVars, jupVars, quarVars, wsVars, limVars, recVars, runVars,
                pauseVars, bookVars, vwapVars, saveVars, mapVars, connVars, polVars, appVars,
                lockVars, dedVars, scnVars>>

\* on_jup_skip (lines 41-73).  san.first is history: the time of the first
\* event counted since the counter last restarted.
on_jup_skip(code, input_mint, output_mint, bad_mint) ==
    LET m == skip_mint(input_mint, output_mint, bad_mint)
    IN  IF m = "" \/ m = SanStable \/ m \notin DOMAIN san_mint_to_symbol
        THEN /\ san' = [san EXCEPT !.added = NoAdd]
             /\ UNCHANGED nonSanVars
        ELSE LET over  == window_over(san.now, san.last_ts[m])
                 count == (IF over THEN 0 ELSE san.counts[m]) + 1
                 hit   == \/ code = "TOKEN_NOT_TRADABLE" /\ count >= JUP_NOT_TRADABLE_HITS
                          \/ code = "COULD_NOT_FIND_ANY_ROUTE" /\ count >= JUP_NO_ROUTE_HITS
             IN  /\ count <= MaxSanHits
                 /\ san' = [san EXCEPT
                        !.counts[m] = count,
                        !.last_ts[m] = san.now,
                        !.first[m] = IF over \/ san.counts[m] = 0 THEN san.now ELSE @,
                        !.recent[m][1] = IF code = "COULD_NOT_FIND_ANY_ROUTE" THEN @ + 1 ELSE @,
                        !.qrate = IF hit THEN qrate_after(san.qrate, san.now) ELSE @,
                        !.added =
                            IF hit /\ allow_jup_quarantine(san.qrate, san.now)
                            THEN IF code = "TOKEN_NOT_TRADABLE"
                                 THEN [symbol |-> san_mint_to_symbol[m],
                                       reason |-> "JUP_TOKEN_NOT_TRADABLE",
                                       ttl |-> JUP_NOT_TRADABLE_TTL_SEC]
                                 ELSE [symbol |-> san_mint_to_symbol[m],
                                       reason |-> "JUP_NO_ROUTE",
                                       ttl |-> JUP_NO_ROUTE_TTL_SEC]
                            ELSE NoAdd]
                 /\ UNCHANGED nonSanVars

\* Time passes.
SanTick ==
    /\ san.now < MaxSanTicks * SanStep
    /\ san' = [san EXCEPT
            !.now = @ + SanStep,
            !.recent = [m \in DOMAIN san.recent |->
                          [i \in SanSlots |-> IF i = 1 THEN 0 ELSE san.recent[m][i - 1]]],
            !.added = NoAdd]
    /\ UNCHANGED nonSanVars

\* The closure after make_on_jup_skip (lines 27-29).  time.time() is far
\* beyond the window, so an absent last timestamp (0.0) restarts the counter
\* just as a zero counter does.
InitSan ==
    san = [now |-> 0,
           counts |-> [m \in DOMAIN san_mint_to_symbol |-> 0],
           last_ts |-> [m \in DOMAIN san_mint_to_symbol |-> 0],
           first |-> [m \in DOMAIN san_mint_to_symbol |-> 0],
           recent |-> [m \in DOMAIN san_mint_to_symbol |-> [i \in SanSlots |-> 0]],
           qrate |-> [ts |-> 0, cnt |-> 0],
           added |-> NoAdd]

\* The events the quote client emits (connectors/jupiter.py lines 354, 362):
\* TOKEN_NOT_TRADABLE names a mint, COULD_NOT_FIND_ANY_ROUTE names none.
SanEvents ==
    { <<"TOKEN_NOT_TRADABLE", SanStable, m, m>> : m \in SanMints }
    \cup { <<"TOKEN_NOT_TRADABLE", m, SanStable, SanStable>> : m \in SanMints }
    \cup { <<"COULD_NOT_FIND_ANY_ROUTE", SanStable, m, "">> : m \in SanMints }
    \cup { <<"COULD_NOT_FIND_ANY_ROUTE", m, SanStable, "">> : m \in SanMints }

NextSan ==
    \/ \E e \in SanEvents : on_jup_skip(e[1], e[2], e[3], e[4])
    \/ SanTick

(***************************************************************************)
(* The poll back-off of QuotePoller (core/arb/poller.py): the passes of    *)
(* run(), the runners of one pass, and token_cfgs, the dict the poller     *)
(* shares with the quarantine manager, which rebuilds it in place          *)
(* (core/quarantine_manager.py, _rebuild_token_cfgs_inplace).  History:    *)
(* none_at, err_at and req_at are the times of a token's last poll that    *)
(* returned none, of its last poll that raised and of its last request     *)
(* (-1: never); kept tells of each of the two whether the back-off entry    *)
(* has been in the table ever since, or replaced by a later one.           *)

\* Bounds: clock steps, changes of token_cfgs, quotes stored.
MaxPolTicks  == 2
MaxCfgEdits  == 2
MaxPolQuotes == 1

\* Seconds between two readings of time.time().
PolStep == 5

\* Semaphore(max(1, poll_concurrency)) for the concurrency tried (line 153).
pol_concurrency == 1

PolTokens == {"T1", "T2"}

\* _poll_allowed that looks at no back-off.
poll_allowed_always(backoff, token_key, now) == TRUE

\* _poll_allowed (lines 81-82); 0 is the default of .get for an absent key.
poll_allowed(backoff, token_key, now) == now >= backoff[token_key]

\* _poll_backoff (lines 84-85)
poll_backoff(backoff, token_key, sec, now) == [backoff EXCEPT ![token_key] = now + sec]

\* _prune_poll_backoff (lines 87-91)
prune_poll_backoff(backoff, valid) ==
    [k \in DOMAIN backoff |-> IF k \in valid THEN backoff[k] ELSE 0]

\* The runners inside the semaphore.
PolInside == { t \in PolTokens : pol.pc[t] = "request" }

nonPolVars == <<engineVars, jupVars, quarVars, wsVars, limVars, recVars, runVars,
                pauseVars, bookVars, vwapVars, saveVars, mapVars, connVars, sanVars, appVars,
                lockVars, dedVars, scnVars>>

\* run(), lines 166-173: a pass begins; it prunes the back-off table and
\* creates a runner for every token of token_cfgs as it is now (the tokens
\* tried fit in one chunk).
PassStart ==
    /\ pol.run = "sleep"
    /\ pol' = [pol EXCEPT
            !.run = "pass",
            !.backoff = prune_poll_backoff(pol.backoff, pol.token_cfgs),
            !.kept = [t \in PolTokens |->
                        IF t \in pol.token_cfgs THEN pol.kept[t]
                        ELSE [none |-> FALSE, err |-> FALSE]],
            !.todo = pol.token_cfgs]
    /\ UNCHANGED nonPolVars

\* runner, lines 156-159: the back-off check, then the wait for the semaphore.
RunnerStart(t) ==
    /\ pol.run = "pass"
    /\ t \in pol.todo
    /\ pol' = [pol EXCEPT
            !.todo = @ \ {t},
            !.pc[t] = IF poll_allowed(pol.backoff, t, pol.now) THEN "sem" ELSE "idle"]
    /\ UNCHANGED nonPolVars

\* _poll_one_token to its request (lines 100-136), inside the semaphore:
\* it returns at a check ("skip"), raises before the request ("raise"), or
\* sends the BUY request ("request").
RunnerEnter(t, outcome) ==
    /\ pol.pc[t] = "sem"
    /\ Cardinality(PolInside) < pol_concurrency
    /\ pol' = CASE outcome = "skip" -> [pol EXCEPT !.pc[t] = "idle"]
               [] outcome = "raise" ->
                    [pol EXCEPT !.pc[t] = "idle",
                                !.backoff = poll_backoff(pol.backoff, t,
                                                         PollerDefaults.backoff_on_err_sec, pol.now),
                                !.err_at[t] = pol.now,
                                !.kept[t].err = TRUE]
               [] OTHER -> [pol EXCEPT !.pc[t] = "request", !.req_at[t] = pol.now]
    /\ UNCHANGED nonPolVars

\* Lines 138-150: the request returns a quote ("some"), none, or an
\* exception reaches the handler.  A quote is stored inside `async with
\* qp.lock`; no holder of that lock awaits while it holds it (engine.py
\* lines 230-240, 386-389), so the lock is free when the poller asks for it.
QuoteReturns(t, answer) ==
    /\ pol.pc[t] = "request"
    /\ answer = "some" => pol.stored < MaxPolQuotes
    /\ pol' = CASE answer = "some" ->
                    [pol EXCEPT !.pc[t] = "idle",
                                !.buy_quote[t] = pol.stored + 1,
                                !.stored = @ + 1,
                                !.write = [token |-> t, locked |-> TRUE],
                                !.backoff[t] = 0]
               [] answer = "none" ->
                    [pol EXCEPT !.pc[t] = "idle",
                                !.backoff = poll_backoff(pol.backoff, t,
                                                         PollerDefaults.backoff_on_none_sec, pol.now),
                                !.none_at[t] = pol.now,
                                !.kept[t].none = TRUE]
               [] OTHER ->
                    [pol EXCEPT !.pc[t] = "idle",
                                !.backoff = poll_backoff(pol.backoff, t,
                                                         PollerDefaults.backoff_on_err_sec, pol.now),
                                !.err_at[t] = pol.now,
                                !.kept[t].err = TRUE]
    /\ UNCHANGED nonPolVars

\* Lines 174-180: gather returns when every runner has, and the pass sleeps.
PassEnd ==
    /\ pol.run = "pass"
    /\ pol.todo = {}
    /\ \A t \in PolTokens : pol.pc[t] = "idle"
    /\ pol' = [pol EXCEPT !.run = "sleep"]
    /\ UNCHANGED nonPolVars

\* The quarantine manager takes a token out of token_cfgs
\* (quarantine_manager.py lines 125, 134, 180) ...
CfgRemove(t) ==
    /\ pol.edits < MaxCfgEdits
    /\ t \in pol.token_cfgs
    /\ pol' = [pol EXCEPT !.token_cfgs = @ \ {t}, !.edits = @ + 1]
    /\ UNCHANGED nonPolVars

\* ... and puts it back (sync_loop line 180, remove_recovered).
CfgRestore(t) ==
    /\ pol.edits < MaxCfgEdits
    /\ t \notin pol.token_cfgs
    /\ pol' = [pol EXCEPT !.token_cfgs = @ \cup {t}, !.edits = @ + 1]
    /\ UNCHANGED nonPolVars

\* Time passes.
PolTick ==
    /\ pol.now < MaxPolTicks * PolStep
    /\ pol' = [pol EXCEPT !.now = @ + PolStep]
    /\ UNCHANGED nonPolVars

\* The poller after construction (lines 50, 66) with every token active.
InitPol ==
    pol = [now |-> 0, run |-> "sleep", token_cfgs |-> PolTokens, todo |-> {},
           backoff |-> [t \in PolTokens |-> 0],
           pc |-> [t \in PolTokens |-> "idle"],
           buy_quote |-> [t \in PolTokens |-> 0], stored |-> 0,
           write |-> [token |-> "", locked |-> FALSE],
           none_at |-> [t \in PolTokens |-> -1],
           err_at |-> [t \in PolTokens |-> -1],
           req_at |-> [t \in PolTokens |-> -1],
           kept |-> [t \in PolTokens |-> [none |-> FALSE, err |-> FALSE]],
           edits |-> 0]

NextPol ==
    \/ PassStart
    \/ \E t \in PolTokens : RunnerStart(t)
    \/ \E t \in PolTokens, outcome \in {"skip", "raise", "request"} : RunnerEnter(t, outcome)
    \/ \E t \in PolTokens, answer \in {"some", "none", "raise"} : QuoteReturns(t, answer)
    \/ PassEnd
    \/ \E t \in PolTokens : CfgRemove(t)
    \/ \E t \in PolTokens : CfgRestore(t)
    \/ PolTick

(***************************************************************************)
(* The exchange toggle (app/handlers.py, on_exchange_toggle and            *)
(* on_symbols_changed), the WS health task (app/tasks.py, ws_health_loop), *)
(* the quarantine manager's add() and sync_loop, and the cluster's         *)
(* clients (core/ws_cluster.py), for the tokens of the quarantine section. *)
(* A handler is one step here.  app.ob_last is the time of a symbol's last *)
(* order-book message (-1: none yet).                                      *)

\* Bound: clock steps.
MaxAppTicks == 4

\* Seconds between two readings of the clock.
AppStep == 21600

\* core/config.py line 72
ws_snapshot_timeout_sec == 30

\* The shards update_symbols makes of a symbol list (ws_cluster.py line 55).
AppShards(symbols) == Len(chunked(symbols, max_symbols_per_ws))

\* update_symbols, lines 57-70: clients are created until there is one per
\* shard; none is ever dropped.
clients_after_update(clients, symbols) ==
    IF clients < AppShards(symbols) THEN AppShards(symbols) ELSE clients

\* on_symbols_changed (handlers.py lines 117-121): update_symbols, whatever
\* the exchange switch says.
on_symbols_changed(clients, symbols) == clients_after_update(clients, symbols)

\* ws_health_loop, lines 186-190: the symbol's book is stale.
is_stale(last_msg, now) == last_msg <= 0 \/ now - last_msg > ws_snapshot_timeout_sec

\* ws_health_loop, line 182: the symbols the iteration looks at.
health_symbols(a) == a.cfg.symbols

\* QuarantineManager.add (quarantine_manager.py lines 104-136) applied to
\* the record.
app_add(a, sym, reason, ttl) ==
    IF (a.now - a.last_write[sym]) < ADD_GUARD_SEC THEN a
    ELSE [a EXCEPT
            !.last_write[sym] = a.now,
            !.file = IF keeps_longer(a.file.ent, sym, a.now) THEN @
                     ELSE rec_save(a.file, [rec_prune(a.file.ent, a.now) EXCEPT
                                      ![sym] = [reason |-> reason, until |-> a.now + ttl]]),
            !.set = @ \cup {sym},
            !.cfg = rec_apply(a.set \cup {sym})]

\* Lines 192-194: add() for each stale symbol in turn.
RECURSIVE add_stale(_, _)
add_stale(a, syms) ==
    IF syms = <<>> THEN a
    ELSE add_stale(app_add(a, Head(syms), "WS_STALE", AUTO_Q_TTL_SEC), Tail(syms))

nonAppVars == <<engineVars, jupVars, quarVars, wsVars, limVars, recVars, runVars,
                pauseVars, bookVars, vwapVars, saveVars, mapVars, connVars, sanVars, polVars,
                lockVars, dedVars, scnVars>>

\* on_exchange_toggle(enabled), handlers.py lines 102-112: start() is
\* update_symbols, stop() drops every client.
AppToggle(enabled) ==
    /\ app.exchange_enabled # enabled
    /\ app' = [app EXCEPT
            !.exchange_enabled = enabled,
            !.clients = IF enabled THEN clients_after_update(app.clients, app.cfg.symbols) ELSE 0]
    /\ UNCHANGED nonAppVars

\* A client delivers an order-book message of a symbol it is subscribed to
\* (handlers.py lines 78-96).
AppMessage(sym) ==
    /\ app.clients > 0
    /\ \E i \in DOMAIN app.cfg.symbols : app.cfg.symbols[i] = sym
    /\ sym \notin app.set
    /\ app.ob_last[sym] # app.now
    /\ app' = [app EXCEPT !.ob_last[sym] = app.now]
    /\ UNCHANGED nonAppVars

\* One iteration of ws_health_loop (tasks.py lines 177-194) once the start-up
\* grace is over.
AppHealth ==
    /\ app.now - app.start_ts >= ws_snapshot_timeout_sec
    /\ app' = add_stale(app, SelectSeq(health_symbols(app),
                                       LAMBDA sym : is_stale(app.ob_last[sym], app.now)))
    /\ UNCHANGED nonAppVars

\* The sanitizer's add() for a token the quote client reported
\* (jupiter_sanitizer.py line 66); the quote client is asked while the
\* exchange logic is on.
AppSkipAdd(sym) ==
    /\ app.exchange_enabled
    /\ has_info(sym)
    /\ app' = app_add(app, sym, "JUP_TOKEN_NOT_TRADABLE", JUP_NOT_TRADABLE_TTL_SEC)
    /\ app' # app
    /\ UNCHANGED nonAppVars

\* One iteration of sync_loop that finds the file changed
\* (quarantine_manager.py lines 151-185), its callback included.
AppSync ==
    /\ app.file.mtime > app.last_mtime
    /\ LET q  == app.file.ent
           q2 == rec_prune(q, app.now)
           f2 == IF rec_keys(q2) # rec_keys(q) THEN rec_save(app.file, q2) ELSE app.file
       IN  app' = IF rec_keys(q2) # app.set
                  THEN [app EXCEPT
                          !.last_mtime = app.file.mtime,
                          !.file = f2,
                          !.set = rec_keys(q2),
                          !.cfg = rec_apply(rec_keys(q2)),
                          !.clients = on_symbols_changed(app.clients,
                                                         rec_apply(rec_keys(q2)).symbols)]
                  ELSE [app EXCEPT !.last_mtime = app.file.mtime, !.file = f2]
    /\ UNCHANGED nonAppVars

\* Time passes, AppStep seconds at a time.  sync_loop polls every 10 s, so a
\* changed file has been looked at before the clock moves this far.
AppTick ==
    /\ app.now < RecEpoch + MaxAppTicks * AppStep
    /\ app.file.mtime <= app.last_mtime
    /\ app' = [app EXCEPT !.now = @ + AppStep]
    /\ UNCHANGED nonAppVars

\* The application after start-up with exchange_enabled true
\* (app/bootstrap.py lines 80, 127-133, 208-210): load_initial has run on no
\* quarantine file and the cluster is started on the active symbols.
InitApp ==
    app = [now |-> RecEpoch, start_ts |-> RecEpoch,
           exchange_enabled |-> TRUE,
           file |-> rec_save(NoRecFile, initial_entries(NoRecFile, RecEpoch)),
           last_mtime |-> 0,
           set |-> rec_keys(initial_entries(NoRecFile, RecEpoch)),
           cfg |-> rec_apply(rec_keys(initial_entries(NoRecFile, RecEpoch))),
           last_write |-> [sym \in RecSyms |-> 0],
           ob_last |-> [sym \in RecSyms |-> -1],
           clients |-> clients_after_update(
                          0, rec_apply(rec_keys(initial_entries(NoRecFile, RecEpoch))).symbols)]

NextApp ==
    \/ \E enabled \in BOOLEAN : AppToggle(enabled)
    \/ \E sym \in RecSyms : AppMessage(sym)
    \/ AppHealth
    \/ \E sym \in RecSyms : AppSkipAdd(sym)
    \/ AppSync
    \/ AppTick

(***************************************************************************)
(* The locks: QuarantineManager._file_lock ("file") and ._lock ("state")   *)
(* (core/quarantine_manager.py) and BybitWSCluster._lock ("cluster")       *)
(* (core/ws_cluster.py), and the tasks that take them: a caller of add(),   *)
(* the order-book handler's contains(), sync_loop, verify_and_recover and  *)
(* the exchange toggle's start() and stop().  A task is at "idle", at a    *)
(* request for a lock, or at an await inside a lock.  The sections that    *)
(* hold a lock without an await are one step.                              *)

AddTasks  == {"add"}
LockTasks == AddTasks \cup {"ob", "sync", "verify", "toggle"}

\* The lock has no holder.
Unlocked(lock) == lock_state[lock] = ""

\* A stop() whose close waits for the reader task, which is inside on_ob.
close_waits_for_reader(l) == l.pc["ob"] # "wantS"

\* BybitWS.stop (connectors/bybit_ws.py lines 99-106) awaits ws.close(),
\* which gives up after close_timeout = 2 s (line 121): it returns whatever
\* the other tasks do.
close_returns(l) == TRUE

nonLockVars == <<engineVars, jupVars, quarVars, wsVars, limVars, recVars, runVars,
                 pauseVars, bookVars, vwapVars, saveVars, mapVars, connVars, sanVars, polVars,
                 appVars, dedVars, scnVars>>

\* A task is called or woken and comes to its first lock request.
LockStart(t, first) ==
    /\ lock_state.pc[t] = "idle"
    /\ lock_state' = [lock_state EXCEPT !.pc[t] = first]
    /\ UNCHANGED nonLockVars

\* add(), lines 110-129, entered: the 15 s guard returns ("guard"); an entry
\* that outlasts 30 min makes it ask for the state lock inside the file lock
\* ("keep", lines 121-126); otherwise it writes the file, leaves the file
\* lock and asks for the state lock (lines 128-131).
AddFile(t, branch) ==
    /\ lock_state.pc[t] = "wantF"
    /\ Unlocked("file")
    /\ lock_state' = CASE branch = "guard" -> [lock_state EXCEPT !.pc[t] = "idle"]
              [] branch = "keep" ->
                    IF Unlocked("state") THEN [lock_state EXCEPT !.pc[t] = "idle"]
                    ELSE [lock_state EXCEPT !.file = t, !.pc[t] = "wantS_inF"]
              [] OTHER ->
                    IF Unlocked("state") THEN [lock_state EXCEPT !.pc[t] = "idle"]
                    ELSE [lock_state EXCEPT !.pc[t] = "wantS"]
    /\ UNCHANGED nonLockVars

\* add() gets the state lock (lines 122-126, 131-134) and returns.
AddState(t) ==
    /\ lock_state.pc[t] \in {"wantS_inF", "wantS"}
    /\ Unlocked("state")
    /\ lock_state' = [lock_state EXCEPT !.pc[t] = "idle",
                        !.file = IF lock_state.pc[t] = "wantS_inF" THEN "" ELSE @]
    /\ UNCHANGED nonLockVars

\* contains(), lines 138-141, called by on_ob (app/handlers.py line 78).
ObContains ==
    /\ lock_state.pc["ob"] = "wantS"
    /\ Unlocked("state")
    /\ lock_state' = [lock_state EXCEPT !.pc["ob"] = "idle"]
    /\ UNCHANGED nonLockVars

\* The file section of sync_loop (lines 161-166) and of verify_and_recover
\* (quarantine_verifier.py lines 42-44).  A verifier that finds entries goes
\* on to its probes.
FileSection(t, next) ==
    /\ t \in {"sync", "verify"}
    /\ lock_state.pc[t] = "wantF"
    /\ next \in (IF t = "sync" THEN {"wantS"} ELSE {"idle", "probing"})
    /\ Unlocked("file")
    /\ lock_state' = [lock_state EXCEPT !.pc[t] = next]
    /\ UNCHANGED nonLockVars

\* The probes of verify_and_recover are over (lines 60-87): nothing was
\* recovered, or remove_recovered is called.
VerifyProbed(recovered) ==
    /\ lock_state.pc["verify"] = "probing"
    /\ lock_state' = [lock_state EXCEPT !.pc["verify"] = IF recovered THEN "rmF" ELSE "idle"]
    /\ UNCHANGED nonLockVars

\* QuarantineManager.remove_recovered, by its description: the symbols leave
\* the file, inside the file lock, and then the chain of sync_loop follows.
RemoveRecoveredFile ==
    /\ lock_state.pc["verify"] = "rmF"
    /\ Unlocked("file")
    /\ lock_state' = [lock_state EXCEPT !.pc["verify"] = "wantS"]
    /\ UNCHANGED nonLockVars

\* sync_loop lines 171-185, and the same chain of remove_recovered: inside
\* the state lock the sets are compared; when they differ the callback is
\* awaited, and with it update_symbols' request for the cluster lock, the
\* state lock being held.
StateSection(t, differ) ==
    /\ t \in {"sync", "verify"}
    /\ lock_state.pc[t] = "wantS"
    /\ Unlocked("state")
    /\ lock_state' = IF ~differ \/ Unlocked("cluster")
             THEN [lock_state EXCEPT !.pc[t] = "idle"]
             ELSE [lock_state EXCEPT !.state = t, !.pc[t] = "wantC_inS"]
    /\ UNCHANGED nonLockVars

\* update_symbols (ws_cluster.py lines 57-76) gets the cluster lock inside
\* the callback; it has no await inside, and the state lock is left after it.
CallbackCluster(t) ==
    /\ lock_state.pc[t] = "wantC_inS"
    /\ Unlocked("cluster")
    /\ lock_state' = [lock_state EXCEPT !.pc[t] = "idle", !.state = ""]
    /\ UNCHANGED nonLockVars

\* on_exchange_toggle (app/handlers.py lines 105-111): start() is
\* update_symbols; stop() (ws_cluster.py lines 45-52) awaits the clients'
\* stop() inside the cluster lock.
ToggleCluster ==
    /\ lock_state.pc["toggle"] \in {"wantC_start", "wantC_stop"}
    /\ Unlocked("cluster")
    /\ lock_state' = IF lock_state.pc["toggle"] = "wantC_start"
             THEN [lock_state EXCEPT !.pc["toggle"] = "idle"]
             ELSE [lock_state EXCEPT !.cluster = "toggle", !.pc["toggle"] = "closing"]
    /\ UNCHANGED nonLockVars

\* The clients' stop() have returned: stop() clears the lists and leaves the
\* cluster lock.
CloseReturns ==
    /\ lock_state.pc["toggle"] = "closing"
    /\ close_returns(lock_state)
    /\ lock_state' = [lock_state EXCEPT !.pc["toggle"] = "idle", !.cluster = ""]
    /\ UNCHANGED nonLockVars

InitLock ==
    lock_state = [file |-> "", state |-> "", cluster |-> "", pc |-> [t \in LockTasks |-> "idle"]]

\* The first lock request of each task.
FirstRequest(t) ==
    IF t = "ob" THEN {"wantS"}
    ELSE IF t = "toggle" THEN {"wantC_start", "wantC_stop"}
    ELSE {"wantF"}

NextLock ==
    \/ \E t \in LockTasks : \E first \in FirstRequest(t) : LockStart(t, first)
    \/ \E t \in AddTasks, branch \in {"guard", "keep", "write"} : AddFile(t, branch)
    \/ \E t \in AddTasks : AddState(t)
    \/ ObContains
    \/ \E t \in {"sync", "verify"}, next \in {"idle", "probing", "wantS"} : FileSection(t, next)
    \/ \E recovered \in BOOLEAN : VerifyProbed(recovered)
    \/ RemoveRecoveredFile
    \/ \E t \in {"sync", "verify"}, differ \in BOOLEAN : StateSection(t, differ)
    \/ \E t \in {"sync", "verify"} : CallbackCluster(t)
    \/ ToggleCluster
    \/ CloseReturns

(***************************************************************************)
(* core/arb/dedup.py on its own: any sequence of can_send and mark_sent     *)
(* calls on one Dedup object, whose cooldown_sec and min_delta_profit are   *)
(* those of its construction.  Beside _last_sent the model keeps the table *)
(* mark_sent would have built had _prune_stale never deleted an entry.      *)

MaxDedTicks == 6
DedStep     == 15

DedKeys      == {"K1", "K2"}
DedCooldowns == {0, 20, 45}
DedProfits   == {RInt(4), RInt(5)}

NotAsked == [some |-> FALSE]

nonDedVars == <<engineVars, jupVars, quarVars, wsVars, limVars, recVars, runVars,
                pauseVars, bookVars, vwapVars, saveVars, mapVars, connVars, sanVars, polVars,
                appVars, lockVars, scnVars>>

\* Dedup.can_send(key, profit), lines 30-40: _prune_stale, then the decision
\* on the table it left; ret_kept is the decision on the table with every
\* entry kept.
DedCanSend(key, profit) ==
    LET pr == prune_stale(ded.last_sent, ded.last_prune_ts, ded.cooldown_sec, ded.now)
    IN  /\ ded' = [ded EXCEPT
                      !.last_sent = pr[1],
                      !.last_prune_ts = pr[2],
                      !.asked = [some |-> TRUE, key |-> key, at |-> ded.now,
                                 ret |-> can_send(pr[1], key, profit, ded.cooldown_sec,
                                                  ded.min_delta_profit, ded.now),
                                 ret_kept |-> can_send(ded.kept, key, profit, ded.cooldown_sec,
                                                       ded.min_delta_profit, ded.now)]]
        /\ UNCHANGED nonDedVars

\* Dedup.mark_sent(key, profit), lines 42-43.
DedMarkSent(key, profit) ==
    /\ ded' = [ded EXCEPT !.last_sent = mark_sent(@, key, profit, ded.now),
                          !.kept = mark_sent(@, key, profit, ded.now)]
    /\ UNCHANGED nonDedVars

\* time.time() goes on.
DedTick ==
    /\ ded.now < InitClock + (MaxDedTicks * DedStep)
    /\ ded' = [ded EXCEPT !.now = @ + DedStep]
    /\ UNCHANGED nonDedVars

\* Dedup.__init__, lines 14-18, with cooldown_sec = c.
DedStart(c) ==
    ded = [now |-> InitClock, cooldown_sec |-> c, min_delta_profit |-> RInt(1),
           last_sent |-> [k \in DedKeys |-> NoSent], last_prune_ts |-> 0,
           kept |-> [k \in DedKeys |-> NoSent], asked |-> NotAsked]

InitDed == DedStart(20)

NextDed ==
    \/ \E key \in DedKeys, profit \in DedProfits : DedCanSend(key, profit)
    \/ \E key \in DedKeys, profit \in DedProfits : DedMarkSent(key, profit)
    \/ DedTick

(***************************************************************************)
(* Branch A of ArbEngine._run_one_token on literal inputs: a token of 6     *)
(* decimals, notional 1000, fees and buffers of 30 bps, min_profit 1, the  *)
(* other settings at the defaults of core/config.py.  The quote and the    *)
(* book of every tick are fresh.                                           *)

MaxScnTicks == 5
ScnStep     == 1

ScnToken == [mint |-> "M1", bybit_symbol |-> "TKNUSDT", decimals |-> 6]
ScnKey   == "TKN:JUP->BYBIT:1000"

\* AppConfig defaults (core/config.py lines 57-65) around the literal values.
ScnSettings(hits) ==
    [InitSettings EXCEPT !.notional = RInt(1000),
                         !.stable_decimals = 6,
                         !.max_cex_slippage_bps = RInt(30),
                         !.max_dex_price_impact_pct = Rat(1, 2),
                         !.persistence_hits = hits,
                         !.cooldown_sec = 60,
                         !.min_delta_profit = Rat(1, 2),
                         !.max_spread_bps = RInt(50)]

\* Prices are given in cents; every level has 200 of the base.
ScnLevel(cents) == << <<Rat(cents, 100), RInt(200)>> >>
ScnBids == {1000, 1020}
ScnAsks == {1001, 1021}

\* The buy quote of the poller: none, or 1000 USDC for 99.9 of the token at
\* an impact of 0.01 %.
ScnQuote ==
    [some |-> TRUE, input_mint |-> "USDC", output_mint |-> "M1",
     in_amount_raw |-> 1000000000, out_amount_raw |-> 99900000,
     price_impact_pct |-> Rat(1, 100)]
ScnQuotes == {NoQuote, ScnQuote}

NoScnTick == [some |-> FALSE]

nonScnVars == <<engineVars, jupVars, quarVars, wsVars, limVars, recVars, runVars,
                pauseVars, bookVars, vwapVars, saveVars, mapVars, connVars, sanVars, polVars,
                appVars, lockVars, dedVars>>

\* One tick of _run_one_token for the token, lines 215-325: the mid and the
\* spread gate, required_profit_usd, the filter chain of branch A, the
\* persistence counter, can_send and mark_sent, and the Signal.
ScnTick(bid, ask, j_buy) ==
    LET st       == scn.settings
        bids     == ScnLevel(bid)
        ms       == calc_mid_spread(bids, ScnLevel(ask))
        gated    == ~ms.ok \/ RLt(st.max_spread_bps, ms.spread_bps)
        required == required_profit_usd(st.thresholds, st.notional)
        a        == IF gated THEN [valid |-> FALSE, reason |-> "skip_spread", profit |-> RZero]
                    ELSE BranchA(st, ScnToken, j_buy, bids, ms.mid, required)
        sim      == IF j_buy.some
                    THEN simulate_sell_base(bids, from_raw(j_buy.out_amount_raw,
                                                           ScnToken.decimals))
                    ELSE NoSim
        cnt      == PersistHit(scn.cnt, ScnKey, a.valid)
        ready    == PersistReady(cnt, ScnKey, a.valid, st.persistence_hits)
        pr       == IF ready
                    THEN prune_stale(scn.last_sent, scn.last_prune_ts, st.cooldown_sec, scn.now)
                    ELSE <<scn.last_sent, scn.last_prune_ts>>
        send     == ready /\ can_send(pr[1], ScnKey, a.profit, st.cooldown_sec,
                                      st.min_delta_profit, scn.now)
        literal  == bid = 1020 /\ j_buy = ScnQuote
    IN  /\ scn.ticks < MaxScnTicks
        /\ scn' = [scn EXCEPT
                      !.ticks = @ + 1,
                      !.now = @ + ScnStep,
                      !.cnt = cnt,
                      !.last_sent = IF send THEN mark_sent(pr[1], ScnKey, a.profit, scn.now)
                                    ELSE pr[1],
                      !.last_prune_ts = pr[2],
                      !.run = IF literal THEN @ + 1 ELSE 0,
                      !.signals = IF send THEN @ + 1 ELSE @,
                      !.last = [some |-> TRUE, literal |-> literal, reason |-> a.reason,
                                required |-> required,
                                token_out |-> IF j_buy.some
                                              THEN from_raw(j_buy.out_amount_raw,
                                                            ScnToken.decimals)
                                              ELSE RZero,
                                quote_out |-> IF sim.ok THEN sim.quote_out ELSE RZero,
                                profit |-> a.profit,
                                signal |-> send, first |-> scn.signals = 0]]
        /\ UNCHANGED nonScnVars

\* ArbEngine.__init__, lines 76-90: Persistence(persistence_hits) and Dedup.
ScnStart(hits) ==
    scn = [settings |-> ScnSettings(hits), ticks |-> 0, now |-> InitClock,
           cnt |-> [k \in {ScnKey} |-> 0],
           last_sent |-> [k \in {ScnKey} |-> NoSent], last_prune_ts |-> 0,
           run |-> 0, signals |-> 0, last |-> NoScnTick]

ScnHits == 1 .. 3

InitScn == ScnStart(2)

NextScn == \E bid \in ScnBids, ask \in ScnAsks, j_buy \in ScnQuotes : ScnTick(bid, ask, j_buy)

InitRest == InitSan /\ InitPol /\ InitApp /\ InitLock

InitMore == InitRest /\ InitDed /\ InitScn

InitOld ==
    /\ InitEngine /\ InitJup /\ InitQuar /\ InitWS
    /\ InitLim /\ InitRec /\ InitRun /\ InitPause /\ InitBook /\ InitVwap /\ InitSave
    /\ InitMap /\ InitConn /\ InitRest

InitExtra ==
    /\ InitLim /\ InitRec /\ InitRun /\ InitPause /\ InitBook /\ InitVwap /\ InitSave
    /\ InitMap /\ InitConn /\ InitMore

Init == InitEngine /\ InitJup /\ InitQuar /\ InitWS /\ InitExtra

SpecEngine == Init /\ [][NextEngine]_vars

SpecReload == Init /\ [][NextReload]_vars

\* The quarantine manager, started on either quarantine file.
InitQ == InitEngine /\ InitJup /\ InitWS /\ InitExtra /\ \E f \in InitQuarFiles : QuarStart(f)

SpecQuar == InitQ /\ [][NextQuar]_vars

SpecWS == Init /\ [][NextWS]_vars

\* The quote client, for the configured max_retries values tried.
MaxRetriesTried == {0, 2}

InitJ == InitEngine /\ InitQuar /\ InitWS /\ InitExtra /\ \E n \in MaxRetriesTried : JupStart(n)

SpecJup == InitJ /\ [][NextJup]_vars

InitL ==
    /\ InitEngine /\ InitJup /\ InitQuar /\ InitWS /\ InitRec /\ InitRun /\ InitPause
    /\ InitBook /\ InitVwap /\ InitSave /\ InitMap /\ InitConn /\ InitMore
    /\ \E rps2 \in RpsTried : \E concurrency \in ConcurrencyTried :
          LimStart(rps2, concurrency)

SpecLim == InitL /\ [][NextLim]_vars

SpecRec == Init /\ [][NextRec]_vars

SpecRun == Init /\ [][NextRun]_vars

SpecPause == Init /\ [][NextPause]_vars

SpecBook == Init /\ [][NextBook]_vars

SpecSave == Init /\ [][NextSave]_vars

\* The map functions, for the maps tried.
InitK ==
    /\ InitEngine /\ InitJup /\ InitQuar /\ InitWS
    /\ InitLim /\ InitRec /\ InitRun /\ InitPause /\ InitBook /\ InitVwap /\ InitSave
    /\ InitConn /\ InitMore
    /\ \E q \in QuarantineMaps : MapStart(q)

SpecMap == InitK /\ [][NextMap]_vars

\* The simulators, for the levels and the ordered pairs of amounts tried.
InitV ==
    /\ InitEngine /\ InitJup /\ InitQuar /\ InitWS
    /\ InitLim /\ InitRec /\ InitRun /\ InitPause /\ InitBook /\ InitSave /\ InitMap
    /\ InitConn /\ InitMore
    /\ \E levels \in AscendingLevels : \E x1 \in 1..MaxAmount : \E x2 \in x1..MaxAmount :
          VwapStart(levels, x1, x2)

SpecVwap == InitV /\ [][NextVwap]_vars

SpecRecFault == Init /\ [][NextRecFault]_vars

\* One BybitWS client, for both ways a cancellation meets wait_for.
InitB ==
    /\ InitEngine /\ InitJup /\ InitQuar /\ InitWS
    /\ InitLim /\ InitRec /\ InitRun /\ InitPause /\ InitBook /\ InitVwap /\ InitSave
    /\ InitMap /\ InitMore
    /\ \E direct \in BOOLEAN : bclient = NewConn(direct)

SpecConn == InitB /\ [][NextConn]_vars

\* The fair runs of the quarantine manager and the verifier: sync_loop
\* looks at the file every 10 s, the verifier's probes are answered and its
\* runs come round, and time passes.  No add() is ever forced.
RecFairness ==
    /\ WF_vars(RecSync(FALSE))
    /\ WF_vars(RecTick)
    /\ WF_vars(RecVerifyStart)
    /\ WF_vars(RecVerifyNext)
    /\ WF_vars(\E quote \in ProbeAnswers : RecProbeReply(quote))

SpecRecLive == Init /\ [][NextRec]_vars /\ RecFairness

SpecSan == Init /\ [][NextSan]_vars

SpecPol == Init /\ [][NextPol]_vars

SpecApp == Init /\ [][NextApp]_vars

SpecLock == Init /\ [][NextLock]_vars

\* A Dedup of any of the cooldowns.
InitD == InitOld /\ InitScn /\ \E c \in DedCooldowns : DedStart(c)

SpecDed == InitD /\ [][NextDed]_vars

\* An engine of any of the persistence_hits.
InitH == InitOld /\ InitDed /\ \E hits \in ScnHits : ScnStart(hits)

SpecScn == InitH /\ [][NextScn]_vars

\* The fair runs of the tasks that take the locks.  asyncio.Lock wakes its
\* waiters in the order they came, so a task that asks for a lock which is
\* free again and again gets it: strong fairness for every acquisition.
\* The await inside stop() ends.  No task is ever forced to start.
LockFairness ==
    /\ \A t \in AddTasks :
          /\ SF_vars(\E branch \in {"guard", "keep", "write"} : AddFile(t, branch))
          /\ SF_vars(AddState(t))
    /\ SF_vars(ObContains)
    /\ \A t \in {"sync", "verify"} :
          /\ SF_vars(\E next \in {"idle", "probing", "wantS"} : FileSection(t, next))
          /\ SF_vars(\E differ \in BOOLEAN : StateSection(t, differ))
          /\ SF_vars(CallbackCluster(t))
    /\ WF_vars(\E recovered \in BOOLEAN : VerifyProbed(recovered))
    /\ SF_vars(RemoveRecoveredFile)
    /\ SF_vars(ToggleCluster)
    /\ WF_vars(CloseReturns)

SpecLockLive == Init /\ [][NextLock]_vars /\ LockFairness

\* Fair scheduling of the calls, every request ending, time passing; no
\* task is cancelled.
LimFairness ==
    /\ WF_vars(LimTick)
    /\ \A c \in LimCallIds :
          /\ WF_vars(LimEnter(c))
          /\ WF_vars(WaitToken(c))
          /\ WF_vars(\E again \in BOOLEAN : HttpEnd(c, again))

SpecLimLive == InitL /\ [][LimSteps]_vars /\ LimFairness

\* The fair runs of the WS clients: scheduled tasks run, connections are
\* made, the control task wakes, and every request is answered.
WSFairness ==
    \A c \in WSClientIds :
        /\ WF_vars(SetTask(c))
        /\ WF_vars(Connect(c))
        /\ WF_vars(ControlWake(c))
        /\ \A who \in Appliers : WF_vars(AckOk(c, who) \/ AckFail(c, who))

SpecWSLive == Init /\ [][NextWS]_vars /\ WSFairness

-----------------------------------------------------------------------------
(* Properties of the arb engine (SpecEngine).                              *)

Signals == { emitted[k] : k \in { k \in Keys : emitted[k].some } }

\* C1 (persistence law): whenever a Signal is emitted for a branch, the current
\* evaluation and the persistence_hits - 1 evaluations of that (token, branch)
\* before it were all valid and completed, i.e. the run of consecutive completed
\* valid evaluations ending with this one has length >= persistence_hits.
C1_PersistenceLaw ==
    \A sig \in Signals : sig.streak >= sig.hits

\* C2 (dedup law): for two successive Signals of one key, ts_2 - ts_1 >=
\* cooldown_sec or profit_2 - profit_1 >= min_delta_profit.
C2_DedupLaw ==
    \A sig \in Signals :
        sig.prev.some =>
            \/ sig.ts - sig.prev.ts >= sig.cooldown_sec
            \/ RLe(sig.min_delta_profit, RSub(sig.profit, sig.prev.profit))

\* C2 witness: a second Signal of a key was emitted after _prune_stale had
\* dropped the table entry of the first one.
C2_Witness ==
    \E sig \in Signals :
        /\ sig.prev.some
        /\ last_prune_ts > sig.prev.ts
        /\ sig.ts >= last_prune_ts
        /\ sig.prev.ts < last_prune_ts - (sig.cooldown_sec * 2)

\* C3: the sell quote behind every branch-B Signal satisfies every condition
\* that makes need_requote false (mints, impact, age, requested amount within
\* 0.3% of expected_raw).
C3_SellQuoteChecked ==
    \A sig \in Signals : sig.branch = "B" => sig.sell_reason = ""


-----------------------------------------------------------------------------
(* Quarantine manager properties.                                          *)

\* The fair runs of the quarantine manager: sync_loop keeps iterating, the
\* callback returns, and a call waiting for a lock gets it.
QuarFairness ==
    /\ WF_vars(SyncIteration)
    /\ WF_vars(SyncCallbackReturn)
    /\ \A id \in 1..MaxAdds : WF_vars(AddFileResume(id)) /\ WF_vars(AddLockResume(id))

SpecQuarLive == InitQ /\ [][NextQuar]_vars /\ QuarFairness

AddCalls == { qadd[i] : i \in DOMAIN qadd }

\* C4: when add(S, reason, ttl) with a non-empty S has returned, contains(S) is
\* true and S is in neither the active symbol list nor the token maps.
C4_AddPostcondition ==
    \A call \in AddCalls :
        call.pc = "done" => call.contains /\ ~call.listed /\ ~call.mapped

\* C5: after add(T, JUP_TOKEN_NOT_TRADABLE, 24 h) for an active symbol T has
\* written T's entry and returned, the symbols-changed callback eventually
\* hands the WS cluster a symbol list without T.
C5_CallbackDropsSymbol ==
    \A id \in 1..MaxAdds : \A sym \in QSymbols :
        (/\ id \in DOMAIN qadd
         /\ qadd[id].pc = "done" /\ qadd[id].sym = sym /\ qadd[id].active /\ qadd[id].wrote
         /\ qadd[id].ttl = JUP_NOT_TRADABLE_TTL_SEC)
        ~> (\A i \in DOMAIN qcluster : qcluster[i] # sym)


-----------------------------------------------------------------------------
(* WS client and cluster properties.                                       *)

\* C6: for a client whose requests were all acknowledged, once set_symbols is
\* no longer called the subscribed topic set eventually equals the desired
\* topic set and stays equal.
C6_SubscribedConverges ==
    \A c \in WSClientIds :
        <>[](c \in DOMAIN wclients =>
                \/ wclients[c].failed
                \/ wclients[c].subscribed = wclients[c].desired)

\* C7: at every moment a topic is in the subscribed set of at most one client
\* of the cluster.
C7_OneShardPerTopic ==
    \A c1 \in DOMAIN wclients : \A c2 \in DOMAIN wclients :
        c1 # c2 => wclients[c1].subscribed \cap wclients[c2].subscribed = {}


-----------------------------------------------------------------------------
(* Quote client properties.                                                *)

JMints == { pr[1] : pr \in JPairs } \cup { pr[2] : pr \in JPairs }

\* A mint or pair has an unexpired block in the given tables.
HasBlock(tok, pair, input_mint, output_mint) ==
    \/ \E i \in DOMAIN tok : tok[i].key \in {input_mint, output_mint} /\ tok[i].until > jNow
    \/ \E i \in DOMAIN pair : pair[i].key = <<input_mint, output_mint>> /\ pair[i].until > jNow

\* The calls in progress that have sent their first request and nothing more.
FirstRequests(calls, input_mint, output_mint) ==
    { call \in BagToSet(calls) :
        /\ call.input_mint = input_mint /\ call.output_mint = output_mint
        /\ call.pc = "request" /\ call.requests = 1 }

\* A step in which a call sends its first request for the pair.
Sent(input_mint, output_mint) ==
    \E call \in FirstRequests(jcall', input_mint, output_mint) :
        CopiesIn(call, jcall') > CopiesIn(call, jcall)

\* C8 as stated: no call sends a request for a pair that has an unexpired
\* token or pair block at the time of the call.
C8_NoRequestWhenBlocked ==
    [][\A pr \in JPairs :
          HasBlock(token_until, pair_until, pr[1], pr[2]) => ~Sent(pr[1], pr[2])]_vars

\* C8, amended: no call sends a request for a pair that has an unexpired token
\* or pair block once the call's own cleanup step has run.
C8_NoRequestWhenBlockedAfterCleanup ==
    [][\A pr \in JPairs :
          HasBlock(token_until', pair_until', pr[1], pr[2]) => ~Sent(pr[1], pr[2])]_vars

\* A call returned none at the negative-cache check, after its cleanup ran
\* and left the block in place.
C8_Witness ==
    /\ jret.pc = "done" /\ jret.requests = 0 /\ jret.cleaned /\ jret.result = "none"
    /\ HasBlock(token_until, pair_until, jret.input_mint, jret.output_mint)

\* The deadline stored for a key, 0 when there is none.
Deadline(tab, key) ==
    IF \E i \in DOMAIN tab : tab[i].key = key
    THEN tab[CHOOSE i \in DOMAIN tab : tab[i].key = key].until
    ELSE 0

Unexpired(tab) == { i \in DOMAIN tab : tab[i].until > jNow }

\* C9 as stated: the deadline of an unexpired block never moves earlier and
\* the block is never dropped.
C9_DeadlineMonotone ==
    [][/\ \A m \in JMints :
            Deadline(token_until, m) > jNow
                => Deadline(token_until', m) >= Deadline(token_until, m)
       /\ \A pr \in JPairs :
            Deadline(pair_until, pr) > jNow
                => Deadline(pair_until', pr) >= Deadline(pair_until, pr)]_vars

\* C9, amended: the same, for a table whose unexpired entries do not exceed
\* the size cap of cleanup.
C9_DeadlineMonotoneUnderCap ==
    [][/\ \A m \in JMints :
            Deadline(token_until, m) > jNow /\ Cardinality(Unexpired(token_until)) <= MaxTokenItems
                => Deadline(token_until', m) >= Deadline(token_until, m)
       /\ \A pr \in JPairs :
            Deadline(pair_until, pr) > jNow /\ Cardinality(Unexpired(pair_until)) <= MaxPairItems
                => Deadline(pair_until', pr) >= Deadline(pair_until, pr)]_vars

\* A reply's block_pair asked for an earlier deadline than the pair's
\* unexpired one, which stayed.
C9_Witness ==
    /\ jret.pc = "done" /\ jret.kept
    /\ Deadline(pair_until, <<jret.input_mint, jret.output_mint>>) > jNow + NOT_TRADABLE_PAIR_TTL

JCalls == BagToSet(jcall) \cup (IF jret.pc = "done" THEN {jret} ELSE {})

\* C10 as stated: at most max_retries requests; a further request only after
\* a 429, a 5xx or a network error or timeout; after a 200, a 400 or another
\* status no further request, and the call returns.
C10_Retries ==
    \A call \in JCalls :
        /\ call.requests <= jcfg.max_retries
        /\ \A r \in call.resent_after : r.status = 429 \/ r.status >= 500 \/ r.what = "net"
        /\ (call.last.status # 0 /\ call.last.status # 429 /\ call.last.status < 500)
               => call.pc = "done"

\* C10, amended: at most max(1, max_retries) requests; a further request only
\* after a 429, a 5xx, or a network error or timeout, one raised while the
\* body of a 200 is read included; after a 200 whose body arrived, a 400 or
\* another status no further request, and the call returns.
C10_RetriesAmended ==
    \A call \in JCalls :
        /\ call.requests <= (IF jcfg.max_retries > 1 THEN jcfg.max_retries ELSE 1)
        /\ \A r \in call.resent_after :
              r.status = 429 \/ r.status >= 500 \/ r.what \in {"net", "body_net"}
        /\ (/\ call.last.status # 0 /\ call.last.status # 429 /\ call.last.status < 500
            /\ call.last.what # "body_net")
               => call.pc = "done"

\* A call got a quote from its second request, sent after the body of a 200
\* failed with a network error.
C10_Witness ==
    /\ jret.pc = "done" /\ jret.result = "quote" /\ jret.requests > 1
    /\ \E r \in jret.resent_after : r.status = 200 /\ r.what = "body_net"


(***************************************************************************)
(* Properties of the rate limiter.                                         *)
(***************************************************************************)
InFlight == { c \in LimCallIds : lcall[c].pc = "http" }

\* The calls that are between a successful _sem.acquire() and the end of
\* their request.
PermitHolders == { c \in LimCallIds : lcall[c].pc \in {"token", "http"} }

\* C11: the requests in flight never exceed the configured concurrency, and
\* every permit is either free or held by a call that is still between
\* taking it and the end of its request; in particular all permits are free
\* when no call is in progress.
C11_PermitsReturned ==
    /\ Cardinality(InFlight) <= lim.permits
    /\ lim.sem + Cardinality(PermitHolders) = lim.permits

\* C12: every quote_exact_in call that has started eventually returns.
C12_CallReturns ==
    \A c \in LimCallIds :
        (lcall[c].pc \in {"sem_wait", "token", "http", "retry"}) ~> (lcall[c].pc = "done")


(***************************************************************************)
(* Properties of the quarantine manager's derived tables.                  *)
(***************************************************************************)
\* The symbols of a sequence, as a set.
Range(seq) == { seq[i] : i \in DOMAIN seq }

ActiveTokens(qs) == { k \in DOMAIN full_tokens : full_tokens[k].bybit_symbol \notin qs }

\* C16: in every state another task can observe, cfg.bybit.symbols is the
\* full symbol list, in order, less the quarantined set; the token map and
\* token_cfgs hold exactly the tokens whose symbol is not quarantined; the
\* denylist is the base denylist united with the quarantined set.
C16_TablesAgree ==
    /\ Range(cfg.symbols) = QSymbols \ quarantined_set
    /\ \A i \in DOMAIN cfg.symbols : \A j \in DOMAIN cfg.symbols :
          i < j => \E a \in DOMAIN full_symbols : \E b \in DOMAIN full_symbols :
                      a < b /\ full_symbols[a] = cfg.symbols[i] /\ full_symbols[b] = cfg.symbols[j]
    /\ cfg.tokens = ActiveTokens(quarantined_set)
    /\ DOMAIN token_cfgs = ActiveTokens(quarantined_set)
    /\ \A k \in DOMAIN token_cfgs : token_cfgs[k] = full_tokens[k]
    /\ cfg.denylist_symbols = base_denylist \cup quarantined_set

\* The set has gone through add() and through a sync_loop apply that removed
\* a symbol, and another add() is waiting for _lock while the callback runs.
C16_Witness ==
    /\ qsync.pc = "callback"
    /\ quarantined_set # QSymbols
    /\ \E id \in DOMAIN qadd : qadd[id].pc = "done" /\ qadd[id].wrote
    /\ \E id \in DOMAIN qadd : qadd[id].pc \in {"wait_lock_in", "wait_lock_out"}


(***************************************************************************)
(* Properties of the quarantine file handling and the verifier.            *)
(***************************************************************************)
\* C13: a sync_loop iteration that sees an mtime change and cannot read or
\* parse the file leaves the quarantined set, the active symbol list, the
\* token map, token_cfgs and the denylist as they were and does not invoke
\* the callback.
C13_ReadErrorKeepsState ==
    [][rsync'.faults # rsync.faults
          => rset' = rset /\ rcfg' = rcfg /\ rtok' = rtok /\ rsync'.cb = rsync.cb]_vars

\* The symbols load_initial quarantines with reason BAD_TOKEN_CFG.
BadCfgSymbols ==
    { rec_tokens[k].bybit_symbol : k \in { j \in DOMAIN rec_tokens : ~token_ok(rec_tokens[j]) } }

\* C14: a symbol quarantined with reason BAD_TOKEN_CFG stays in the
\* quarantined set and out of the active symbol list and the token maps.
C14_BadTokenCfgStays ==
    \A sym \in BadCfgSymbols :
        /\ sym \in rset
        /\ \A i \in DOMAIN rcfg.symbols : rcfg.symbols[i] # sym
        /\ \A k \in rcfg.tokens \cup DOMAIN rtok : rec_tokens[k].bybit_symbol # sym


AllSetTasksApplied == \A c \in DOMAIN wclients : wclients[c].set_tasks = <<>>

ShardCount(symbols) == (Len(symbols) + max_symbols_per_ws - 1) \div max_symbols_per_ws

\* The i-th run of max_symbols_per_ws consecutive symbols of a list.
ConsecutiveChunk(symbols, i) ==
    SubSeq(symbols, ((i - 1) * max_symbols_per_ws) + 1,
           IF i * max_symbols_per_ws < Len(symbols) THEN i * max_symbols_per_ws ELSE Len(symbols))

\* C17: once the set_symbols updates of update_symbols(S) are applied, client
\* i up to ceil(|S| / max_symbols_per_ws) desires the i-th consecutive chunk
\* of S, no chunk is larger than max_symbols_per_ws, the chunks together are
\* S, every further client desires nothing; and no step lowers the number
\* of clients.
C17_Sharding ==
    /\ [](AllSetTasksApplied =>
            /\ Len(wclients) >= ShardCount(wsymbols)
            /\ \A c \in DOMAIN wclients :
                  /\ c <= ShardCount(wsymbols)
                        => wclients[c].desired =
                              topics_for_symbols(ConsecutiveChunk(wsymbols, c))
                  /\ c > ShardCount(wsymbols) => wclients[c].desired = {}
                  /\ Cardinality(wclients[c].desired) <= max_symbols_per_ws
            /\ UNION { wclients[c].desired : c \in DOMAIN wclients }
                  = topics_for_symbols(wsymbols))
    /\ [][Len(wclients') >= Len(wclients)]_vars

\* A three-symbol update was followed by a one-symbol update and both are
\* applied: the second client is kept and desires nothing.
C17_Witness ==
    /\ AllSetTasksApplied
    /\ wupdates = 2 /\ Len(wsymbols) = 1 /\ Len(wclients) = 2
    /\ wclients[1].desired # {} /\ wclients[2].desired = {}

\* What a client will desire once its pending set_symbols updates have run
\* in their order.
FinalDesired(cl) ==
    IF cl.set_tasks = <<>> THEN cl.desired ELSE cl.set_tasks[Len(cl.set_tasks)]

\* C18: whatever the interleaving of update_symbols calls and of the
\* set_symbols updates they scheduled, each client ends with the shard of the
\* most recently invoked call, and an update that has run is never replaced
\* by one scheduled before it.
C18_LatestCallWins ==
    \A c \in DOMAIN wclients :
        FinalDesired(wclients[c])
            = topics_for_symbols(Shard(chunked(wsymbols, max_symbols_per_ws), c))

\* The second call was made while an update of the first was still pending,
\* and it changed that client's shard.
C18_Witness ==
    \E c \in DOMAIN wclients :
        /\ wupdates = 2
        /\ Len(wclients[c].set_tasks) = 2
        /\ wclients[c].set_tasks[1] # wclients[c].set_tasks[2]
        /\ wclients[c].set_tasks[1] # {}


(***************************************************************************)
(* Properties of the engine's tick loop.                                   *)
(***************************************************************************)
\* C19: whatever is raised while a token is evaluated, run() does not end,
\* and at the end of each tick _run_one_token has been entered for every
\* token of token_cfgs.
C19_RunSurvives ==
    /\ nrun.pc # "crashed"
    /\ (nrun.pc = "sleep" /\ nrun.ticks > 0) => nseen = RunTokens

\* Two ticks have been completed in which the quote client, the sink and the
\* except handler have all raised.
C19_Witness ==
    /\ nrun.pc = "sleep" /\ nrun.ticks = MaxRunTicks
    /\ nrun.raised = RunOutcomes \ {"ok"}


(***************************************************************************)
(* The signal sink's failure and the engine state.                         *)
(***************************************************************************)
\* C20: when on_signal returns or raises for a branch-A Signal, the
\* persistence counters of both branches, the dedup table and the progress of
\* the token's branch-B evaluation are what a normal return leaves.
C20_SinkFailureHarmless ==
    [][\A t \in Tokens :
          (epc[t] = "sinkA" /\ epc'[t] # "sinkA")
              => /\ pcnt' = StartB(EngineState, eset, t).pcnt
                 /\ last_sent' = StartB(EngineState, eset, t).last_sent
                 /\ epc'[t] = StartB(EngineState, eset, t).epc[t]]_vars

\* C21: while the exchange switch is off, the poller sends no quote request
\* and the engine enters no token's evaluation.
C21_SuspendedWhileDisabled ==
    [][\A t \in RunTokens :
          /\ (ptask[t] = "created" /\ ptask'[t] = "http") => xev
          /\ (ntask[t] = "created" /\ ntask'[t] = "running") => xev]_vars

\* C22: every level stored in bids and asks has qty > 0.
C22_StoredQtyPositive ==
    \A pr \in BookPrices :
        /\ obook.bids[pr].has => obook.bids[pr].qty > 0
        /\ obook.asks[pr].has => obook.asks[pr].qty > 0

\* A delta row with qty 0 for a price that is not present leaves the side
\* as it is.
DeleteAbsentIsNoop ==
    \A ps \in PriceStrings : \A side \in {obook.bids, obook.asks} :
        (safe_decimal(ps).some /\ ~side[safe_decimal(ps).v].has)
            => delta_side(side, << <<ps, "0">> >>) = side

\* C23: over the same asks, the larger notional gives an avg_price and a
\* base_out at least as large; over the same bids, the larger base amount
\* gives a base_out and a quote_out at least as large and an avg_price at
\* most as large.
C23_VwapMonotone ==
    (vw.r1.ok /\ vw.r2.ok) =>
        /\ vw.pc = "bought" => /\ RLe(vw.r1.avg_price, vw.r2.avg_price)
                               /\ RLe(vw.r1.base_out, vw.r2.base_out)
        /\ vw.pc = "sold" => /\ RLe(vw.r1.base_out, vw.r2.base_out)
                             /\ RLe(vw.r1.quote_out, vw.r2.quote_out)
                             /\ RLe(vw.r2.avg_price, vw.r1.avg_price)

\* C24: whoever reads the quarantine file, at any moment, gets the complete
\* content of before the write in progress or the complete new content.
C24_AtomicReplace ==
    dseen.some => dseen.lines \in {dseen.prev, dseen.new}

\* C25: prune_expired(q, ts) returns exactly the entries of q whose until_ts
\* is greater than ts, does not modify q, and returns the empty map for the
\* empty map.
C25_PruneExact ==
    kres.pc = "pruned" =>
        /\ DOMAIN kres.out = { sym \in DOMAIN kq0 : kq0[sym].until_ts > kres.ts }
        /\ \A sym \in DOMAIN kres.out : kres.out[sym] = kq0[sym]
        /\ kq = kq0
        /\ (kq0 = <<>> => kres.out = <<>>)

\* A prune at ts of a map with an entry that ends at ts, one that ended
\* before and one that ends later.
C25_Witness ==
    /\ kres.pc = "pruned"
    /\ \E a, b \in DOMAIN kq0 : kq0[a].until_ts = kres.ts /\ kq0[b].until_ts > kres.ts
    /\ DOMAIN kres.out # DOMAIN kq0
    /\ kres.out # <<>>

\* The reasons that strip() and the "unknown" default leave as they are.
CleanReasons(q) == \A sym \in DOMAIN q : q[sym].reason # <<>> /\ strip(q[sym].reason) = q[sym].reason

\* C26 as stated: the map loaded from the saved file has the same symbols
\* and, for each, the same reason and until_ts.
C26_RoundTrip ==
    kres.pc = "loaded" => kres.out = kq0

\* C26 for maps whose reasons are not empty and carry no surrounding blanks.
C26_RoundTripClean ==
    (kres.pc = "loaded" /\ CleanReasons(kq0)) => kres.out = kq0

C26_Witness ==
    /\ kres.pc = "loaded"
    /\ CleanReasons(kq0)
    /\ DOMAIN kq0 = MapSymbols
    /\ kres.out = kq0

\* max(5000, 3 * poll_interval * 1000) for the poll interval in force.
QuoteAgeInForce ==
    IF 3 * eset.poller.poll_interval * 1000 > 5000 THEN 3 * eset.poller.poll_interval * 1000
    ELSE 5000

\* An evaluation of token t that gets to the quotes happens in this step.
Evaluated(t) == ticks' = ticks + 1 /\ epc[t] = "idle" /\ Gate(eset, t, ob, eNow) = ""

\* C27: an evaluation nulls a cached quote exactly when the quote is older
\* than max(5000, 3 * poll_interval * 1000) ms, for the poll interval in
\* force at that moment.
C27_StaleByPollInterval ==
    [][\A t \in Tokens :
          Evaluated(t) =>
              /\ (qp[t].buy_quote.some /\ ~qp'[t].buy_quote.some)
                    <=> (qp[t].buy_quote.some
                         /\ now_ms(eNow) - qp[t].buy_updated_ms > QuoteAgeInForce)
              /\ (qp[t].sell_quote.some /\ ~qp'[t].sell_quote.some)
                    <=> (qp[t].sell_quote.some
                         /\ now_ms(eNow) - qp[t].sell_updated_ms > QuoteAgeInForce)]_vars

\* C28: when a branch-A Signal with notional n is emitted, the buy quote it
\* was computed from was requested for n units of stable.
C28_SignalFromOwnNotional ==
    [][\A t \in Tokens : \A n \in NotionalsTried :
          emitted'[SignalKey(t, "A", RInt(n))] # emitted[SignalKey(t, "A", RInt(n))]
              => qp'[t].buy_quote.in_amount_raw = to_raw(RInt(n), eset.stable_decimals)]_vars

-----------------------------------------------------------------------------
(* Properties of one BybitWS client (SpecConn).                            *)

RECURSIVE Pow2(_)
Pow2(k) == IF k = 0 THEN 1 ELSE 2 * Pow2(k - 1)

\* The delay after k consecutive failures: 1 s doubled k times, at most 30 s.
DelayAfter(k) == Min(BACKOFF_START * Pow2(k), BACKOFF_CAP)

\* This step ends a call of _connect_and_run.
CallEnds ==
    /\ bclient.pc \in {"connecting", "up"}
    /\ bclient'.pc \in {"connecting", "sleep"}
    /\ bclient'.pc = "connecting" => bclient'.tries # bclient.tries

\* C29: whenever a connection or a connect attempt of a BybitWS client ends,
\* run() sleeps before it connects again, and the delay is 1 s doubled once
\* for every consecutive failure before, at most 30 s.
C29_BackoffBeforeConnect ==
    [][CallEnds => /\ bclient'.pc = "sleep"
                   /\ bclient'.delay = DelayAfter(bclient.fails)]_vars

\* What is right in it: a call that ends with an exception is followed by that
\* delay.
BackoffAfterException ==
    [][(bclient.pc # "sleep" /\ bclient'.pc = "sleep")
          => bclient'.delay = DelayAfter(bclient.fails) /\ bclient'.delay \in 1..BACKOFF_CAP]_vars

\* C30: when a connection has ended or the run() task was cancelled, the
\* pending-ack table is empty and no ack future is left pending: each one
\* that was pending got an exception or was cancelled; the next connection
\* starts with an empty subscribed set; and no sender waits on a future that
\* nothing will complete: a sender in wait_for has a future that is done, or
\* one that is in the table of a connection that is up.
C30_PendingAcksResolved ==
    /\ [](bclient.pc # "up" =>
             /\ bclient.acks = {}
             /\ \A who \in Senders : bclient.fut[who] # "pending")
    /\ [][(bclient.pc = "connecting" /\ bclient'.pc = "up") => bclient'.subscribed = {}]_vars
    /\ [](\A who \in Senders :
             (bclient.send[who].pc = "ack" /\ bclient.fut[who] = "pending")
                 => (who \in bclient.acks /\ bclient.pc = "up"))

\* A connection has ended while its control task awaited an ack: the future
\* got the exception of the finally block.
C30_Witness ==
    /\ bclient.pc # "up"
    /\ bclient.ended # "none"
    /\ bclient.send["late"].pc = "ack"
    /\ bclient.fut["late"] = "exception"

-----------------------------------------------------------------------------
(* Concurrent runs of _apply_topic_delta in one client (SpecWS).           *)

\* A run of _apply_topic_delta is waiting for the ack of a request.
Applying(a) == a.pc \in {"unsub", "sub"}

\* C31: in one client at most one run of _apply_topic_delta is in progress,
\* so two runs never hold the same topic in their subscribe requests.
C31_OneApplyAtATime ==
    \A c \in DOMAIN wclients :
        ~(Applying(wclients[c].initial) /\ Applying(wclients[c].control))

-----------------------------------------------------------------------------
(* The 400 replies of quote_exact_in (SpecJup).                            *)

\* The step in which a call returned on reply `what` with status 400.
Returned400(what) ==
    /\ jcall' # jcall
    /\ jret'.pc = "done"
    /\ jret'.requests > 0
    /\ jret'.last.status = 400
    /\ jret'.last.what = what

\* C32: a 400 reply with code TOKEN_NOT_TRADABLE or COULD_NOT_FIND_ANY_ROUTE
\* emits the skip once with that code; ROUTE_PLAN_DOES_NOT_CONSUME_ALL_THE_AMOUNT
\* touches only the pair table and emits nothing; any other 400 leaves both
\* tables of the negative cache as they were and emits nothing.
C32_SkipOn400 ==
    [][/\ \A what \in {"TOKEN_NOT_TRADABLE", "COULD_NOT_FIND_ANY_ROUTE"} :
            Returned400(what) => jret'.skip = what
       /\ Returned400("ROUTE_PLAN_DOES_NOT_CONSUME_ALL_THE_AMOUNT") =>
            /\ jret'.skip = ""
            /\ token_until' = token_until
            /\ \A i \in DOMAIN pair_until' :
                    pair_until'[i].key # <<jret'.input_mint, jret'.output_mint>>
                        => i \in DOMAIN pair_until /\ pair_until'[i] = pair_until[i]
       /\ Returned400("other") =>
            /\ jret'.skip = ""
            /\ token_until' = token_until
            /\ pair_until' = pair_until]_vars

\* A call has returned on ROUTE_PLAN_DOES_NOT_CONSUME_ALL_THE_AMOUNT: the pair
\* is blocked and no skip was emitted.
C32_Witness ==
    /\ jret.pc = "done"
    /\ jret.requests > 0
    /\ jret.last.status = 400
    /\ jret.last.what = "ROUTE_PLAN_DOES_NOT_CONSUME_ALL_THE_AMOUNT"
    /\ jret.skip = ""
    /\ Until(pair_until, <<jret.input_mint, jret.output_mint>>) > jNow

-----------------------------------------------------------------------------
(* The debouncing of the sanitizer (SpecSan).                              *)

\* The COULD_NOT_FIND_ANY_ROUTE events of a mint within the last
\* JUP_BAD_WINDOW_SEC seconds.
RECURSIVE SumSlots(_, _)
SumSlots(f, i) == IF i = 0 THEN 0 ELSE f[i] + SumSlots(f, i - 1)

NoRouteInWindow(m) == SumSlots(san.recent[m], JUP_BAD_WINDOW_SEC \div SanStep + 1)

\* C33: quarantine add is called with JUP_NO_ROUTE for a mint only when at
\* least JUP_NO_ROUTE_HITS COULD_NOT_FIND_ANY_ROUTE events for that mint came
\* within the preceding JUP_BAD_WINDOW_SEC seconds.
C33_NoRouteAfterHitsInWindow ==
    \A m \in DOMAIN san_mint_to_symbol :
        (san.added.reason = "JUP_NO_ROUTE" /\ san.added.symbol = san_mint_to_symbol[m])
            => NoRouteInWindow(m) >= JUP_NO_ROUTE_HITS

\* What the code guarantees: the counter of the mint, which counts the events
\* of both codes since the last gap longer than the window, has reached
\* JUP_NO_ROUTE_HITS.
NoRouteAfterCountedHits ==
    \A m \in DOMAIN san_mint_to_symbol :
        (san.added.reason = "JUP_NO_ROUTE" /\ san.added.symbol = san_mint_to_symbol[m])
            => /\ san.counts[m] >= JUP_NO_ROUTE_HITS
               /\ san.last_ts[m] = san.now

\* A reading the counter does not support either: that the events counted
\* for a JUP_NO_ROUTE quarantine all came within JUP_BAD_WINDOW_SEC seconds.
\* Events 900 s apart never restart the counter.
CountedHitsInWindow ==
    \A m \in DOMAIN san_mint_to_symbol :
        san.added.reason = "JUP_NO_ROUTE" => san.now - san.first[m] <= JUP_BAD_WINDOW_SEC

-----------------------------------------------------------------------------
(* The poll back-off (SpecPol).                                            *)

\* The step sends a quote request for token t.
SendsRequest(t) == pol.pc[t] # "request" /\ pol'.pc[t] = "request"

\* The token's last failed poll is still within its back-off time.
InBackoffTime(t) ==
    \/ pol.none_at[t] # -1 /\ pol.now < pol.none_at[t] + PollerDefaults.backoff_on_none_sec
    \/ pol.err_at[t] # -1 /\ pol.now < pol.err_at[t] + PollerDefaults.backoff_on_err_sec

\* The step stores a quote for token t.
StoresQuote(t) == pol'.buy_quote[t] # pol.buy_quote[t]

\* A stored quote is written under the lock of its QuotePair, and the
\* token's back-off entry is gone after the write.
StoredUnderLock ==
    \A t \in PolTokens :
        StoresQuote(t) =>
            /\ pol'.write = [token |-> t, locked |-> TRUE]
            /\ pol'.backoff[t] = 0

\* C34: no request is sent for a token within backoff_on_none_sec of a poll
\* of it that returned none or within backoff_on_err_sec of a poll of it that
\* raised; a successful poll writes the quote under the lock and removes the
\* token's back-off.
C34_NoRequestInBackoff ==
    [][/\ \A t \in PolTokens : SendsRequest(t) => ~InBackoffTime(t)
       /\ StoredUnderLock]_vars

\* The token's last failed poll is still within its back-off time and no
\* pass has begun since with the token missing from token_cfgs.
InKeptBackoffTime(t) ==
    \/ /\ pol.kept[t].none
       /\ pol.now < pol.none_at[t] + PollerDefaults.backoff_on_none_sec
    \/ /\ pol.kept[t].err
       /\ pol.now < pol.err_at[t] + PollerDefaults.backoff_on_err_sec

\* C34 as the code keeps it: the back-off of a failed poll holds for as long
\* as the token is in token_cfgs whenever a pass begins; a pass that begins
\* without the token forgets the back-off.
C34_NoRequestInKeptBackoff ==
    [][/\ \A t \in PolTokens : SendsRequest(t) => ~InKeptBackoffTime(t)
       /\ StoredUnderLock]_vars

\* A token that stayed in token_cfgs is asked for again when its back-off
\* of a poll that returned none is over, and not before.
C34_Witness ==
    \E t \in PolTokens :
        /\ pol.pc[t] = "request"
        /\ pol.kept[t].none
        /\ pol.req_at[t] = pol.none_at[t] + PollerDefaults.backoff_on_none_sec

-----------------------------------------------------------------------------
(* Expired quarantine entries (SpecRecLive).                               *)

\* The symbol is in the in-memory quarantined set and the file holds no
\* live entry for it.
ExpiredInSet(sym) == sym \in rset /\ rec_prune(rfile.ent, rNow)[sym].until = 0

\* The symbol is back: out of the quarantined set, in the active symbol list
\* and, when it has a token, in the token map.
Restored(sym) ==
    /\ sym \notin rset
    /\ \E i \in DOMAIN rcfg.symbols : rcfg.symbols[i] = sym
    /\ \A k \in DOMAIN rec_tokens : rec_tokens[k].bybit_symbol = sym => k \in DOMAIN rtok

\* C35: a quarantined symbol whose entry has expired is eventually restored,
\* whether or not the quarantine file is written again.
C35_ExpiredEventuallyRestored ==
    \A sym \in RecSyms : ExpiredInSet(sym) ~> Restored(sym)

-----------------------------------------------------------------------------
(* The exchange switch, the health task and the cluster (SpecApp).         *)

\* The step writes a WS_STALE entry for the symbol.
AddsWsStale(sym) ==
    /\ app'.file.ent[sym].reason = "WS_STALE"
    /\ app'.file.ent[sym] # app.file.ent[sym]

\* C36: a WS_STALE entry is written only while exchange_enabled is true and
\* the cluster has clients.
C36_NoWsStaleWhileDisabled ==
    [][\A sym \in RecSyms : AddsWsStale(sym) => (app.exchange_enabled /\ app.clients > 0)]_vars

\* C37: while exchange_enabled is false the cluster has no clients.
C37_NoClientsWhileDisabled == ~app.exchange_enabled => app.clients = 0

-----------------------------------------------------------------------------
(* The three locks (SpecLockLive).                                         *)

\* The task is at a request for a lock, or at the await inside stop().
Waiting(t) == lock_state.pc[t] \notin {"idle", "probing"}

\* C38: no interleaving leaves tasks waiting on each other for ever: a task
\* that asks for the file lock, the state lock or the cluster lock gets it,
\* and every lock it asks for after that, and comes to the end of its call.
C38_EveryAcquisitionSucceeds ==
    \A t \in LockTasks : Waiting(t) ~> (lock_state.pc[t] = "idle")

\* The longest chain of waits: an add() holds the file lock and asks for the
\* state lock, which the sync loop holds while its callback asks for the
\* cluster lock, which stop() holds while it closes the clients; the
\* order-book handler asks for the state lock too.
C38_Witness ==
    /\ \E t \in AddTasks : lock_state.file = t /\ lock_state.pc[t] = "wantS_inF"
    /\ lock_state.state = "sync" /\ lock_state.pc["sync"] = "wantC_inS"
    /\ lock_state.cluster = "toggle" /\ lock_state.pc["toggle"] = "closing"
    /\ lock_state.pc["ob"] = "wantS"

-----------------------------------------------------------------------------
(* Dedup on its own (SpecDed).                                             *)

\* C39: pruning never changes a send decision: whatever can_send and
\* mark_sent calls came before, can_send returns what it would return on the
\* table from which no entry was ever pruned.
C39_PruneKeepsDecision ==
    ded.asked.some => (ded.asked.ret = ded.asked.ret_kept)

\* can_send has just been asked about a key whose entry _prune_stale had
\* deleted, and has answered True.
C39_Witness ==
    /\ ded.asked.some
    /\ ded.asked.at = ded.now
    /\ ded.cooldown_sec > 0
    /\ ded.kept[ded.asked.key].some
    /\ ~ded.last_sent[ded.asked.key].some
    /\ ded.asked.ret

-----------------------------------------------------------------------------
(* Branch A on literal inputs (SpecScn).                                   *)

\* The tick that has just run had the buy quote of 99_900_000 raw and the
\* bids [(10.20, 200)].
LiteralTick == scn.last.some /\ scn.last.literal

\* The Signal of a literal tick: none before the persistence_hits-th valid
\* tick in a row, and one at the persistence_hits-th literal tick in a row
\* when no Signal was sent before.
SignalAfterHits ==
    /\ scn.last.signal => scn.cnt[ScnKey] >= scn.settings.persistence_hits
    /\ (scn.run = scn.settings.persistence_hits /\ scn.last.first) => scn.last.signal

\* C40 as stated: token_out 99.9, required profit 4, quote_out = 1019.18,
\* profit = 15.18, and the Signal after persistence_hits such ticks.
C40_HappyPathAsStated ==
    LiteralTick =>
        /\ scn.last.reason = "ok"
        /\ scn.last.token_out = Rat(999, 10)
        /\ scn.last.required = RInt(4)
        /\ scn.last.quote_out = Rat(101918, 100)
        /\ scn.last.profit = Rat(1518, 100)
        /\ SignalAfterHits

\* C40 with the numbers the code computes: quote_out = 99.9 * 10.20 =
\* 1018.98 and profit = 1018.98 - 1000 - 4 = 14.98, and the Signal after
\* persistence_hits such ticks.
C40_HappyPath ==
    LiteralTick =>
        /\ scn.last.reason = "ok"
        /\ scn.last.token_out = Rat(999, 10)
        /\ scn.last.required = RInt(4)
        /\ scn.last.quote_out = Rat(101898, 100)
        /\ scn.last.profit = Rat(1498, 100)
        /\ SignalAfterHits

\* The second literal tick in a row under persistence_hits = 2 has emitted
\* the Signal.
C40_Witness ==
    /\ LiteralTick
    /\ scn.settings.persistence_hits = 2
    /\ scn.run = 2
    /\ scn.last.signal
    /\ scn.last.profit = Rat(1498, 100)

====
